---- MODULE Spec2Model ----
(***************************************************************************)
(* FSAL_MEM object store (src/FSAL/FSAL_MEM/mem_handle.c): the in-memory   *)
(* tree of object handles, the per-directory name / index AVL trees, the   *)
(* release path, the wire handle codec, readdir and the share counters.    *)
(*                                                                         *)
(* Worker threads run the handle methods concurrently.  A method is cut    *)
(* into steps at the points where it touches shared memory outside a lock  *)
(* or leaves a critical section: a section run under a directory's write   *)
(* lock is one step, guarded by the lock being free.                       *)
(***************************************************************************)
EXTENDS Integers, Sequences, FiniteSets, TLC

\* ---------------------------------------------------------------- bounds
MaxObj == 4          \* object records the arena can hold (1 is the export root)
MaxOps == 3          \* method calls started in one concurrent behaviour
MaxSeqOps == 4       \* method calls started in one single-threaded behaviour
MaxRdOps == 6        \* method calls started in one readdir behaviour
MaxShareOps == 3     \* method calls started in one open/close behaviour
MaxExclOps == 3      \* method calls started in one exclusive-create behaviour
MaxDataOps == 3      \* method calls started in one read/write behaviour
InodeSize == 2       \* MEM.inode_size: bytes of data a regular file stores
OffsetMax == 7       \* the largest value of the offset and length type, scaled down
MaxBuf == 3          \* the longest buffer a caller passes to read or write
MaxAttrOps == 4      \* method calls started in one getattrs/resolve behaviour
MaxLkOps == 4        \* method calls started in one lookup/readdir behaviour
MaxLockOps == 3      \* method calls started in one behaviour of the share sections
MaxRenOps == 4       \* method calls started in one rename behaviour
MaxRootOps == 4      \* lookup_path calls started in one behaviour
MaxLiveOps == 2      \* method calls started in one behaviour of the lock waits
PathBytes == 4       \* path bytes that fit the handle envelope after hash and length

NULL == 0
Obj == 1 .. MaxObj
Threads == {1, 2}          \* two worker threads
States == {1, 2}           \* two caller-supplied state_t, each with its mem_fd
RootObj == 1

DIRECTORY == "DIRECTORY"
REGULAR_FILE == "REGULAR_FILE"
SYMBOLIC_LINK == "SYMBOLIC_LINK"
Types == {DIRECTORY, REGULAR_FILE, SYMBOLIC_LINK}

\* Names are byte strings, kept as sequences of one-character strings.
Names == {<<"a">>, <<"b">>}
ExportPath == <<"/", "e">>

ERR_FSAL_NO_ERROR == "ERR_FSAL_NO_ERROR"
ERR_FSAL_NOENT == "ERR_FSAL_NOENT"
ERR_FSAL_EXIST == "ERR_FSAL_EXIST"
ERR_FSAL_NOTDIR == "ERR_FSAL_NOTDIR"
ERR_FSAL_NOTEMPTY == "ERR_FSAL_NOTEMPTY"
ERR_FSAL_FILE_OPEN == "ERR_FSAL_FILE_OPEN"
ERR_FSAL_STALE == "ERR_FSAL_STALE"
ERR_FSAL_SHARE_DENIED == "ERR_FSAL_SHARE_DENIED"
ERR_FSAL_NOT_OPENED == "ERR_FSAL_NOT_OPENED"
ERR_FSAL_NOTSUPP == "ERR_FSAL_NOTSUPP"
ERR_FSAL_BADHANDLE == "ERR_FSAL_BADHANDLE"

VARIABLES
    obj,               \* the mem_fsal_obj_handle records, by arena slot
    handles,           \* fsal->handles, the list mem_create_handle scans
    mem_inode_number,  \* the process-wide inode counter
    root_handle,       \* mfe->root_handle: the export's root object
    obj_lock,          \* obj_hdl.obj_lock: t for a thread holding it for reading,
                       \* -t for the thread holding it for writing
    th,                \* each thread's position in the method it runs
    state_fd,          \* the mem_fd behind each state_t: its openflags
    budget,            \* method calls the threads may still start
    ghost              \* history: frees per record, path at allocation, insert log,
                       \* readdir results, the opens in the order they were granted

vars == <<obj, handles, mem_inode_number, root_handle, obj_lock, th, state_fd, budget,
          ghost>>

\* ------------------------------------------------------------ byte strings
Code(c) ==
    CASE c = "/" -> 1 [] c = "a" -> 2 [] c = "b" -> 3 [] c = "c" -> 4 [] c = "e" -> 5
      [] OTHER -> 6

Min(a, b) == IF a < b THEN a ELSE b

RECURSIVE strcmp(_, _)
strcmp(s, u) ==
    IF s = <<>> /\ u = <<>> THEN 0
    ELSE IF s = <<>> THEN -1
    ELSE IF u = <<>> THEN 1
    ELSE IF Code(Head(s)) < Code(Head(u)) THEN -1
    ELSE IF Code(Head(s)) > Code(Head(u)) THEN 1
    ELSE strcmp(Tail(s), Tail(u))

\* CityHash64 of the path bytes: a value fixed by the bytes alone.  The
\* polynomial below stands for it, in the word width the checker computes with;
\* it has no collision among the bounded paths.
RECURSIVE CityHash64(_)
CityHash64(s) ==
    IF s = <<>> THEN 7
    ELSE (CityHash64(SubSeq(s, 1, Len(s) - 1)) * 11 + Code(s[Len(s)])) % 100000007

\* package_mem_handle: hash, 16-bit length, then the leading path bytes that fit,
\* zero padded to the envelope.
package_mem_handle(pathbuf) ==
    LET len == Len(pathbuf) % 65536
        pathlen == Min(PathBytes, len)
    IN  [hashkey |-> CityHash64(pathbuf),
         len |-> len,
         path |-> [i \in 1 .. PathBytes |->
                     IF i <= pathlen THEN Code(pathbuf[i]) ELSE 0]]

\* ------------------------------------------------------------ object records
\* Open flags are sets of flag bits; FSAL_O_CLOSED is no bit.
FSAL_O_CLOSED == {}
FSAL_O_READ == "FSAL_O_READ"
FSAL_O_WRITE == "FSAL_O_WRITE"
FSAL_O_DENY_READ == "FSAL_O_DENY_READ"
FSAL_O_DENY_WRITE == "FSAL_O_DENY_WRITE"
FSAL_O_TRUNC == "FSAL_O_TRUNC"

\* enum fsal_create_mode; from FSAL_EXCLUSIVE on, the create carries a verifier.
FSAL_NO_CREATE == "FSAL_NO_CREATE"
FSAL_UNCHECKED == "FSAL_UNCHECKED"
FSAL_EXCLUSIVE == "FSAL_EXCLUSIVE"
FSAL_EXCLUSIVE_9P == "FSAL_EXCLUSIVE_9P"
AtLeastExclusive(createmode) == createmode \in {FSAL_EXCLUSIVE, FSAL_EXCLUSIVE_9P}

\* struct fsal_share of a regular file.  The counters are unsigned: a value
\* here stands for its residue, so "above zero" is "not zero".
NoShare ==
    [share_access_read |-> 0, share_access_write |-> 0,
     share_deny_read |-> 0, share_deny_write |-> 0]

NoObj ==
    [st |-> "unalloc", type |-> REGULAR_FILE, m_name |-> <<>>, parent |-> NULL,
     inavl |-> FALSE, index |-> 0, fileid |-> 0, handle |-> package_mem_handle(<<>>),
     next_i |-> 0, numlinks |-> 0, avl_name |-> {}, avl_index |-> {},
     share |-> NoShare, fd |-> FSAL_O_CLOSED, verf |-> 0,
     length |-> 0, filesize |-> 0, spaceused |-> 0, data |-> <<>>,
     attrs_numlinks |-> 0]

\* fullpath: the ancestors' names down the parent back-references, "/" between.
RECURSIVE fullpath(_, _, _)
fullpath(o, par, name) ==
    IF par = NULL THEN name
    ELSE fullpath(o, o[par].parent, o[par].m_name) \o <<"/">> \o name

IdleTh == [pc |-> "idle", op |-> "none", ret |-> "none", dir |-> NULL, x |-> NULL,
           name |-> <<>>, ndir |-> NULL, dst |-> NULL, type |-> REGULAR_FILE,
           fsal_private |-> NULL, seekloc |-> 0, node |-> 0, out |-> <<>>,
           eof |-> TRUE, term |-> FALSE,
           state |-> NULL, openflags |-> FSAL_O_CLOSED, created |-> FALSE,
           createmode |-> FSAL_NO_CREATE, verifier |-> 0, setattrs |-> FALSE,
           amount |-> 0,
           \* the counters as update_share_counters read them, and its two
           \* flag arguments
           share |-> NoShare, from |-> FSAL_O_CLOSED, to |-> FSAL_O_CLOSED,
           \* the directories whose mem_clean_dir_tree the thread is inside,
           \* outermost first
           stack |-> <<>>]

\* A method returns: the thread keeps which method it was, its status and the
\* object it was about.
Return(op, status, x) == [IdleTh EXCEPT !.op = op, !.ret = status, !.x = x]

Resident(o) == obj[o].st = "resident"
Live(o) == Resident(o) /\ (obj[o].parent = NULL \/ obj[o].inavl)

\* ------------------------------------------------------------ directory index
\* avltree_insert keeps keys unique: a node whose key is already in the tree is
\* not linked in (the existing node is returned to the caller).
avltree_insert_name(o, tree, child) ==
    IF \E c \in tree : o[c].m_name = o[child].m_name THEN tree ELSE tree \cup {child}

\* Mutant: the index is taken from the live-child count, not from next_i.
mem_insert_obj_m(o, parent, child) ==
    [o EXCEPT ![parent].avl_name = avltree_insert_name(o, @, child),
              ![parent].avl_index = @ \cup {child},
              ![parent].next_i = @ + 1,
              ![parent].numlinks = @ + 1,
              ![child].index = o[parent].numlinks,
              ![child].inavl = TRUE]

\* mem_insert_obj, the section under the parent's write lock.
mem_insert_obj(o, parent, child) ==
    [o EXCEPT ![parent].avl_name = avltree_insert_name(o, @, child),
              ![parent].avl_index = @ \cup {child},
              ![parent].next_i = @ + 1,
              ![parent].numlinks = @ + 1,
              ![child].index = o[parent].next_i,
              ![child].inavl = TRUE]

\* avltree_remove unlinks the node from the tree it is linked in, whichever
\* root the caller names.
avltree_remove(o, child) ==
    [d \in Obj |-> [o[d] EXCEPT !.avl_name = @ \ {child}, !.avl_index = @ \ {child}]]

\* Mutant: the removal does not test inavl.
mem_remove_obj_locked_m(o, parent, child) ==
    [avltree_remove(o, child) EXCEPT ![parent].numlinks = @ - 1,
                                     ![child].inavl = FALSE]

\* mem_remove_obj_locked with release = false; the caller holds parent's lock.
mem_remove_obj_locked(o, parent, child) ==
    IF ~o[child].inavl THEN o
    ELSE [avltree_remove(o, child) EXCEPT ![parent].numlinks = @ - 1,
                                          ![child].inavl = FALSE]

\* mem_int_lookup for a plain name (NULL is ERR_FSAL_NOENT).
mem_int_lookup(o, dir, path) ==
    IF \E c \in o[dir].avl_name : o[c].m_name = path
    THEN CHOOSE c \in o[dir].avl_name : o[c].m_name = path
    ELSE NULL

\* avltree_first of the name tree: the child with the least name.
avltree_first_name(o, dir) ==
    CHOOSE c \in o[dir].avl_name :
        \A d \in o[dir].avl_name : strcmp(o[c].m_name, o[d].m_name) <= 0

\* ------------------------------------------------------------ release
\* fsal_obj_handle_fini: the record leaves fsal->handles.
fsal_obj_handle_fini(hs, x) == SelectSeq(hs, LAMBDA h : h # x)

\* mem_free_handle: the record's memory goes back to the allocator.
mem_free_handle(S, x) ==
    [S EXCEPT !.obj[x].st = "freed", !.nfree[x] = @ + 1]

RECURSIVE mem_release_body(_, _)
RECURSIVE mem_clean_dir_tree(_, _)

\* Mutant: the test forgets inavl.
mem_release_live_m(o, x) == o[x].parent = NULL

\* The test that opens mem_release: a NULL parent (the export root) or inavl
\* means the entry is still live and the record is kept.
mem_release_live(o, x) == o[x].parent = NULL \/ o[x].inavl

mem_release(S, x) ==
    IF mem_release_live(S.obj, x) THEN S ELSE mem_release_body(S, x)

\* mem_release past the liveness test: fini, the type's teardown, the free.
mem_release_body(S, x) ==
    LET S1 == [S EXCEPT !.handles = fsal_obj_handle_fini(@, x)]
        S2 == IF S1.obj[x].type = DIRECTORY THEN mem_clean_dir_tree(S1, x) ELSE S1
    IN  mem_free_handle(S2, x)

\* Mutant: the loop stops after the first child.
mem_clean_dir_tree_m(S, parent) ==
    IF S.obj[parent].avl_name = {} THEN S
    ELSE LET child == avltree_first_name(S.obj, parent)
         IN  IF ~S.obj[child].inavl THEN S
             ELSE mem_release([S EXCEPT !.obj = mem_remove_obj_locked(@, parent, child)],
                              child)

\* mem_clean_dir_tree: while the name tree has a first node, remove it from
\* the directory and release it.
mem_clean_dir_tree(S, parent) ==
    IF S.obj[parent].avl_name = {} THEN S
    ELSE LET child == avltree_first_name(S.obj, parent)
         IN  IF ~S.obj[child].inavl THEN S
             ELSE mem_clean_dir_tree(
                      mem_release([S EXCEPT !.obj = mem_remove_obj_locked(@, parent, child)],
                                  child),
                      parent)

\* ------------------------------------------------------------ initial state
\* The export exists and mem_lookup_path has allocated its root: a directory
\* with no parent whose name is the export path.
RootRec ==
    [NoObj EXCEPT !.st = "resident", !.type = DIRECTORY, !.m_name = ExportPath,
                  !.fileid = 1, !.handle = package_mem_handle(ExportPath),
                  !.next_i = 2, !.numlinks = 2, !.attrs_numlinks = 2]

InitGhost ==
    [nfree |-> [o \in Obj |-> 0],
     cpath |-> [o \in Obj |-> IF o = RootObj THEN ExportPath ELSE <<>>],
     ilog |-> [o \in Obj |-> <<>>],
     removals |-> [o \in Obj |-> 0],
     subject |-> NULL,
     rds |-> <<>>,
     opens |-> <<>>,
     sobj |-> [s \in States |-> NULL],
     noops |-> [o \in Obj |-> 0],
     shadow |-> [o \in Obj |-> [i \in 1 .. InodeSize |-> 0]]]

InitStore ==
    /\ obj = [o \in Obj |-> IF o = RootObj THEN RootRec ELSE NoObj]
    /\ handles = <<RootObj>>
    /\ mem_inode_number = 2
    /\ root_handle = RootObj
    /\ obj_lock = [o \in Obj |-> {}]
    /\ th = [t \in Threads |-> IdleTh]
    /\ state_fd = [s \in States |-> FSAL_O_CLOSED]
    /\ ghost = InitGhost

Init == InitStore /\ budget = MaxOps

Aborted == \E t \in Threads : th[t].pc = "aborted"
CanCall(t) == th[t].pc = "idle" /\ budget > 0 /\ ~Aborted
At(t, pc) == th[t].pc = pc /\ ~Aborted
Unalloc == {o \in Obj : obj[o].st = "unalloc"}

\* PTHREAD_RWLOCK_rdlock / wrlock / unlock on an obj_lock: a reader enters
\* when no writer holds the lock, a writer when nobody does.  A section that
\* takes the write lock, holds no other lock and ends with the unlock is one
\* step guarded by CanWrLock.
CanRdLock(l) == \A u \in l : u > 0
CanWrLock(l) == l = {}
rdlock(l, t) == l \cup {t}
\* Mutant: the write lock is not taken.
wrlock_m(l, t) == l

wrlock(l, t) == l \cup {0 - t}
unlock(l, t) == l \ {t, 0 - t}

\* The directory whose index tree holds x (NULL when none does).
DirOf(o, x) ==
    IF \E d \in Obj : x \in o[d].avl_index
    THEN CHOOSE d \in Obj : x \in o[d].avl_index
    ELSE NULL

\* Ghost bookkeeping: the index an insert gave the child, and a removal.
LogInsert(g, o2, parent, child) ==
    [g EXCEPT !.ilog[parent] = Append(@, <<child, o2[child].index>>)]
LogRemove(g, o, parent, child) ==
    IF o[child].inavl THEN [g EXCEPT !.removals[parent] = @ + 1]
    ELSE [g EXCEPT !.noops[child] = @ + 1]

\* ------------------------------------------------------------ create
\* Mutant: the name is not looked up.
mem_create_status_m(o, parent, name) ==
    IF o[parent].type # DIRECTORY THEN ERR_FSAL_NOTDIR
    ELSE ERR_FSAL_NO_ERROR

\* mem_create_obj up to the lookup: the parent's type, then mem_int_lookup with
\* no lock held.
mem_create_status(o, parent, name) ==
    IF o[parent].type # DIRECTORY THEN ERR_FSAL_NOTDIR
    ELSE IF mem_int_lookup(o, parent, name) # NULL THEN ERR_FSAL_EXIST
    ELSE ERR_FSAL_NO_ERROR

mem_create_call(t, parent, type, name) ==
    /\ CanCall(t)
    /\ Resident(parent)
    /\ Cardinality(Unalloc) > Cardinality({u \in Threads : th[u].pc = "cr_alloc"})
    /\ budget' = budget - 1
    /\ th' = [th EXCEPT ![t] =
                IF mem_create_status(obj, parent, name) # ERR_FSAL_NO_ERROR
                THEN Return("create", mem_create_status(obj, parent, name), NULL)
                ELSE [IdleTh EXCEPT !.pc = "cr_alloc", !.op = "create",
                                    !.dir = parent, !.type = type, !.name = name]]
    /\ UNCHANGED <<state_fd, obj, handles, mem_inode_number, root_handle, obj_lock, ghost>>

\* Mutant: the handle is packaged from the name alone, not the full path.
mem_alloc_handle_m(o, new, parent, name, type, fileid) ==
    [o EXCEPT ![new] =
        [NoObj EXCEPT !.st = "resident", !.type = type, !.m_name = name,
                      !.parent = parent, !.fileid = fileid,
                      !.handle = package_mem_handle(name),
                      !.next_i = IF type = DIRECTORY THEN 2 ELSE 0,
                      !.numlinks = IF type = DIRECTORY THEN 2 ELSE 0]]

\* _mem_alloc_handle up to mem_insert_obj: the record, its path and wire
\* handle, the next inode number, the type's fields.
mem_alloc_handle(o, new, parent, name, type, fileid) ==
    [o EXCEPT ![new] =
        [NoObj EXCEPT !.st = "resident", !.type = type, !.m_name = name,
                      !.parent = parent, !.fileid = fileid,
                      !.handle = package_mem_handle(fullpath(o, parent, name)),
                      !.next_i = IF type = DIRECTORY THEN 2 ELSE 0,
                      !.numlinks = IF type = DIRECTORY THEN 2 ELSE 0]]

\* _mem_alloc_handle, the caller's attributes: atime and mtime come from
\* attrs when it carries them, which is how an exclusive create stamps its
\* verifier into the new file (verf 0 is a plain timestamp).  A regular file
\* gets inode_size zeroed data bytes behind the record; the caller passes no
\* size, so filesize, spaceused and mh_file.length stay 0.  attrs.numlinks
\* is 2 for a directory and 1 for the other types.
mem_alloc_attrs(o, new, a) ==
    [o EXCEPT ![new].verf = IF AtLeastExclusive(a.createmode) THEN a.verifier ELSE 0,
              ![new].attrs_numlinks = IF o[new].type = DIRECTORY THEN 2 ELSE 1,
              ![new].data = IF o[new].type = REGULAR_FILE
                            THEN [i \in 1 .. InodeSize |-> 0] ELSE <<>>]

\* Mutant: the counter is read and not advanced.
atomic_postinc_uint64_t_m(v) == v

\* atomic_postinc_uint64_t(&mem_inode_number): the caller gets v, the counter
\* is v + 1 after, in one indivisible step.
atomic_postinc_uint64_t(v) == v + 1

\* fsal_obj_handle_init links the record at the head of fsal->handles.
fsal_obj_handle_init(hs, new) == <<new>> \o hs

mem_create_alloc(t) ==
    /\ At(t, "cr_alloc")
    /\ LET new == CHOOSE o \in Unalloc : \A u \in Unalloc : o <= u
           a == th[t]
       IN  /\ obj' = mem_alloc_attrs(
                        mem_alloc_handle(obj, new, a.dir, a.name, a.type, mem_inode_number),
                        new, a)
           /\ handles' = fsal_obj_handle_init(handles, new)
           /\ mem_inode_number' = atomic_postinc_uint64_t(mem_inode_number)
           /\ ghost' = [ghost EXCEPT !.cpath[new] = fullpath(obj, a.dir, a.name)]
           /\ th' = [th EXCEPT ![t].pc = "cr_insert", ![t].x = new]
    /\ UNCHANGED <<state_fd, root_handle, obj_lock, budget>>

\* mem_insert_obj: the parent's write lock, the assertion, the two inserts.
mem_create_insert(t) ==
    /\ At(t, "cr_insert")
    /\ obj_lock[th[t].dir] = {}
    /\ IF obj[th[t].x].inavl
       THEN /\ th' = [th EXCEPT ![t].pc = "aborted"]
            /\ UNCHANGED <<obj, ghost>>
       ELSE /\ obj' = mem_insert_obj(obj, th[t].dir, th[t].x)
            /\ ghost' = LogInsert(ghost, obj', th[t].dir, th[t].x)
            /\ th' = [th EXCEPT ![t] =
                        IF th[t].op = "open2"
                        THEN [th[t] EXCEPT !.pc = "op_fd", !.created = TRUE]
                        ELSE Return("create", ERR_FSAL_NO_ERROR, th[t].x)]
    /\ UNCHANGED <<state_fd, handles, mem_inode_number, root_handle, obj_lock, budget>>

\* ------------------------------------------------------------ unlink
\* Mutant: a directory with one child passes for empty.
mem_unlink_status_m(o, x) ==
    IF o[x].type = DIRECTORY /\ o[x].numlinks > 3 THEN ERR_FSAL_NOTEMPTY
    ELSE IF o[x].type = REGULAR_FILE /\ o[x].fd # FSAL_O_CLOSED THEN ERR_FSAL_FILE_OPEN
    ELSE ERR_FSAL_NO_ERROR

\* The status mem_unlink settles on before it touches the trees.
mem_unlink_status(o, x) ==
    IF o[x].type = DIRECTORY /\ o[x].numlinks > 2 THEN ERR_FSAL_NOTEMPTY
    ELSE IF o[x].type = REGULAR_FILE /\ o[x].fd # FSAL_O_CLOSED THEN ERR_FSAL_FILE_OPEN
    ELSE ERR_FSAL_NO_ERROR

\* Mutant: the object is removed whatever the status.
mem_unlink_obj_m(o, dir, x) == mem_remove_obj_locked(o, dir, x)

\* mem_unlink, all of it under the directory's write lock.
mem_unlink_obj(o, dir, x) ==
    IF mem_unlink_status(o, x) # ERR_FSAL_NO_ERROR THEN o
    ELSE mem_remove_obj_locked(o, dir, x)

\* The caller names an object it found in dir, or one it already removed from
\* its directory.
UnlinkArgs(dir, x) ==
    /\ Resident(dir) /\ Resident(x) /\ x # RootObj /\ x # dir
    /\ obj[dir].type = DIRECTORY
    /\ \/ x \in obj[dir].avl_index
       \/ ~obj[x].inavl /\ obj[x].parent = dir

mem_unlink(t, dir, x) ==
    /\ CanCall(t)
    /\ UnlinkArgs(dir, x)
    /\ obj_lock[dir] = {}
    /\ budget' = budget - 1
    /\ obj' = mem_unlink_obj(obj, dir, x)
    /\ ghost' = IF mem_unlink_status(obj, x) = ERR_FSAL_NO_ERROR
                THEN LogRemove(ghost, obj, dir, x) ELSE ghost
    /\ th' = [th EXCEPT ![t] = Return("unlink", mem_unlink_status(obj, x), x)]
    /\ UNCHANGED <<state_fd, handles, mem_inode_number, root_handle, obj_lock>>

\* ------------------------------------------------------------ release threads
\* mem_release, its opening test.  Reading a record that was already freed
\* is a read of freed memory: either outcome of the test is possible.
mem_release_call(t, x) ==
    /\ CanCall(t)
    /\ obj[x].st # "unalloc"
    /\ budget' = budget - 1
    /\ \/ /\ obj[x].st = "freed" \/ mem_release_live(obj, x)
          /\ th' = [th EXCEPT ![t] = Return("release", ERR_FSAL_NO_ERROR, x)]
       \/ /\ obj[x].st = "freed" \/ ~mem_release_live(obj, x)
          /\ th' = [th EXCEPT ![t] = [IdleTh EXCEPT !.pc = "rel_free", !.op = "release",
                                                    !.x = x]]
    /\ UNCHANGED <<state_fd, obj, handles, mem_inode_number, root_handle, obj_lock, ghost>>

\* mem_release past the test: fini, mem_clean_dir_tree for a directory (under
\* its write lock), mem_free_handle.
mem_release_free(t) ==
    /\ At(t, "rel_free")
    /\ obj_lock[th[t].x] = {}
    /\ LET S == mem_release_body([obj |-> obj, handles |-> handles, nfree |-> ghost.nfree],
                                 th[t].x)
       IN  /\ obj' = S.obj
           /\ handles' = S.handles
           /\ ghost' = [ghost EXCEPT !.nfree = S.nfree]
    /\ th' = [th EXCEPT ![t] = Return("release", "freed", th[t].x)]
    /\ UNCHANGED <<state_fd, mem_inode_number, root_handle, obj_lock, budget>>

\* ------------------------------------------------------------ rename
\* The status mem_rename settles on after its unlocked lookup of the
\* destination name: "go on" when the destination is to be unlinked or is free.
mem_rename_check(o, x, dst) ==
    IF dst = NULL THEN "go on"
    ELSE IF dst = x THEN ERR_FSAL_NO_ERROR
    ELSE IF (o[x].type = DIRECTORY) # (o[dst].type = DIRECTORY) THEN ERR_FSAL_EXIST
    ELSE IF o[dst].type = DIRECTORY /\ o[dst].numlinks > 2 THEN ERR_FSAL_EXIST
    ELSE "go on"

\* Mutant: the name is left as it was.
mem_rename_name_m(o, x, new_name) == o

\* The new name mem_rename stores in the object before it inserts it.
mem_rename_name(o, x, new_name) == [o EXCEPT ![x].m_name = new_name]

\* The caller names an object it found in olddir and a directory to move it to.
RenameArgs(x, olddir, newdir) ==
    /\ Resident(x) /\ Resident(olddir) /\ Resident(newdir)
    /\ x # RootObj /\ x # newdir
    /\ obj[newdir].type = DIRECTORY
    /\ x \in obj[olddir].avl_index

mem_rename_call(t, x, olddir, newdir, new_name) ==
    /\ CanCall(t)
    /\ RenameArgs(x, olddir, newdir)
    /\ budget' = budget - 1
    /\ LET dst == mem_int_lookup(obj, newdir, new_name)
           st == mem_rename_check(obj, x, dst)
       IN  th' = [th EXCEPT ![t] =
                    IF st # "go on" THEN Return("rename", st, x)
                    ELSE [IdleTh EXCEPT !.pc = IF dst = NULL THEN "rn_remove" ELSE "rn_unlink",
                                        !.op = "rename", !.x = x, !.dir = olddir,
                                        !.ndir = newdir, !.name = new_name, !.dst = dst]]
    /\ UNCHANGED <<state_fd, obj, handles, mem_inode_number, root_handle, obj_lock, ghost>>

\* mem_unlink of the destination found by the lookup.
mem_rename_unlink(t) ==
    /\ At(t, "rn_unlink")
    /\ obj_lock[th[t].ndir] = {}
    /\ LET st == mem_unlink_status(obj, th[t].dst)
       IN  /\ obj' = mem_unlink_obj(obj, th[t].ndir, th[t].dst)
           /\ ghost' = IF st = ERR_FSAL_NO_ERROR
                       THEN LogRemove(ghost, obj, th[t].ndir, th[t].dst) ELSE ghost
           /\ th' = [th EXCEPT ![t] = IF st = ERR_FSAL_NO_ERROR
                                      THEN [@ EXCEPT !.pc = "rn_remove"]
                                      ELSE Return("rename", st, th[t].x)]
    /\ UNCHANGED <<state_fd, handles, mem_inode_number, root_handle, obj_lock, budget>>

\* mem_remove_obj: the object leaves the old directory under its write lock.
mem_rename_remove(t) ==
    /\ At(t, "rn_remove")
    /\ obj_lock[th[t].dir] = {}
    /\ obj' = mem_remove_obj_locked(obj, th[t].dir, th[t].x)
    /\ ghost' = LogRemove(ghost, obj, th[t].dir, th[t].x)
    /\ th' = [th EXCEPT ![t].pc = "rn_insert"]
    /\ UNCHANGED <<state_fd, handles, mem_inode_number, root_handle, obj_lock, budget>>

\* The name changes, then mem_insert_obj into the new directory.
mem_rename_insert(t) ==
    /\ At(t, "rn_insert")
    /\ obj_lock[th[t].ndir] = {}
    /\ IF obj[th[t].x].inavl
       THEN /\ obj' = mem_rename_name(obj, th[t].x, th[t].name)
            /\ th' = [th EXCEPT ![t].pc = "aborted"]
            /\ UNCHANGED ghost
       ELSE /\ obj' = mem_insert_obj(mem_rename_name(obj, th[t].x, th[t].name),
                                     th[t].ndir, th[t].x)
            /\ ghost' = LogInsert(ghost, obj', th[t].ndir, th[t].x)
            /\ th' = [th EXCEPT ![t] = Return("rename", ERR_FSAL_NO_ERROR, th[t].x)]
    /\ UNCHANGED <<state_fd, handles, mem_inode_number, root_handle, obj_lock, budget>>

\* ------------------------------------------------------------ resolve
\* mem_create_handle: the first record on fsal->handles whose handle bytes
\* equal the caller's (NULL is ERR_FSAL_STALE).
mem_create_handle(o, hs, hdl_desc) ==
    IF \E i \in 1 .. Len(hs) : o[hs[i]].handle = hdl_desc
    THEN hs[CHOOSE i \in 1 .. Len(hs) :
                /\ o[hs[i]].handle = hdl_desc
                /\ \A j \in 1 .. i - 1 : o[hs[j]].handle # hdl_desc]
    ELSE NULL

\* ------------------------------------------------------------ specifications
\* A caller holds a reference only to an object some method handed out: the
\* export root, or an object that has been inserted into a directory.
Published(x) ==
    \/ x = RootObj
    \/ \E d \in Obj : \E i \in 1 .. Len(ghost.ilog[d]) : ghost.ilog[d][i][1] = x

Step(t) ==
    \/ \E p \in Obj, ty \in Types, n \in Names : mem_create_call(t, p, ty, n)
    \/ mem_create_alloc(t)
    \/ mem_create_insert(t)
    \/ \E d \in Obj, x \in Obj : mem_unlink(t, d, x)
    \/ \E x \in Obj : Resident(x) /\ Published(x) /\ mem_release_call(t, x)
    \/ mem_release_free(t)
    \/ \E x \in Obj, od \in Obj, nd \in Obj, nn \in Names : mem_rename_call(t, x, od, nd, nn)
    \/ mem_rename_unlink(t)
    \/ mem_rename_remove(t)
    \/ mem_rename_insert(t)

\* Worker threads calling the handle methods concurrently.
Next == \E t \in Threads : Step(t)
Spec == Init /\ [][Next]_vars

\* One thread calling the handle methods one after another.
InitSeq == InitStore /\ budget = MaxSeqOps
NextSeq == Step(1)
SpecSeq == InitSeq /\ [][NextSeq]_vars

\* ------------------------------------------------------------ observations
\* The full path fullpath() computes for x now.
CurPath(x) == fullpath(obj, obj[x].parent, obj[x].m_name)

\* Every directory index (either tree) that holds x.
IndexedIn(o, x) == {d \in Obj : x \in o[d].avl_index \cup o[d].avl_name}

\* ------------------------------------------------------------ claims C2 - C7

\* C2: an object whose memory has been freed is in no directory's index, and
\* the export root or an indexed object is never freed: a freed record has a
\* parent, is not marked indexed and is in neither tree of any directory.
C2_FreedNotIndexed ==
    \A x \in Obj :
        obj[x].st = "freed" =>
            /\ obj[x].parent # NULL
            /\ ~obj[x].inavl
            /\ IndexedIn(obj, x) = {}

\* C3: release(X) on the export root or on an indexed X changes nothing: the
\* call returns at once, no record and no list changes, so X stays resident,
\* keeps its name, index number and place in its parent's index, the parent's
\* link count is as before, and lookup and handle resolution answer as before.
C3_ReleaseLiveNoop ==
    [][\A t \in Threads, x \in Obj :
          (Live(x) /\ mem_release_call(t, x)) =>
              /\ th'[t].pc = "idle"
              /\ obj' = obj /\ handles' = handles
              /\ obj'[x].st = "resident"
              /\ IndexedIn(obj', x) = IndexedIn(obj, x)
              /\ \A d \in IndexedIn(obj, x) :
                    /\ obj'[d].numlinks = obj[d].numlinks
                    /\ mem_int_lookup(obj', d, obj[x].m_name)
                         = mem_int_lookup(obj, d, obj[x].m_name)
              /\ mem_create_handle(obj', handles', obj[x].handle)
                   = mem_create_handle(obj, handles, obj[x].handle)]_vars

\* C3 witness: a release of an indexed, non-root object has returned and the
\* object is still resident, indexed and found by name in its directory.
C3_Witness ==
    \E t \in Threads :
        /\ th[t].pc = "idle" /\ th[t].op = "release"
        /\ th[t].ret = ERR_FSAL_NO_ERROR
        /\ th[t].x # RootObj
        /\ Live(th[t].x)
        /\ \E d \in Obj : mem_int_lookup(obj, d, obj[th[t].x].m_name) = th[t].x

C5_RenamePost ==
    [][\A t \in Threads :
          (th[t].pc = "rn_insert" /\ th'[t].pc = "idle"
           /\ th'[t].ret = ERR_FSAL_NO_ERROR) =>
              LET x == th[t].x
              IN  /\ mem_int_lookup(obj', th[t].dir, obj[x].m_name) = NULL
                  /\ mem_int_lookup(obj', th[t].ndir, th[t].name) = x
                  /\ obj'[x].fileid = obj[x].fileid
                  /\ obj'[x].handle = package_mem_handle(ghost.cpath[x])]_vars

\* C5 witness: a rename has returned success and its object now carries a
\* name other than the last component of its allocation path.
C5_Witness ==
    \E t \in Threads :
        /\ th[t].pc = "idle" /\ th[t].op = "rename" /\ th[t].ret = ERR_FSAL_NO_ERROR
        /\ Live(th[t].x)
        /\ CurPath(th[t].x) # ghost.cpath[th[t].x]
        /\ obj[th[t].x].handle = package_mem_handle(ghost.cpath[th[t].x])

\* C6: names are unique among siblings in every reachable state: no directory
\* indexes two children with the same name.
C6_UniqueNames ==
    \A d \in Obj :
        \A c1 \in obj[d].avl_index \cup obj[d].avl_name :
            \A c2 \in obj[d].avl_index \cup obj[d].avl_name :
                c1 # c2 => obj[c1].m_name # obj[c2].m_name

\* C7: in each directory every insertion gets an index number greater than all
\* index numbers given there before, the first being 2; no number is given
\* again after a removal and no two children hold the same index.
C7_IndexMonotonic ==
    \A d \in Obj :
        LET L == ghost.ilog[d]
        IN  /\ Len(L) > 0 => L[1][2] = 2
            /\ \A i \in 1 .. Len(L) : \A j \in 1 .. Len(L) : i < j => L[i][2] < L[j][2]
            /\ \A c1 \in obj[d].avl_index : \A c2 \in obj[d].avl_index :
                  c1 # c2 => obj[c1].index # obj[c2].index

\* C7 witness: a directory that has seen a removal and then a further insert,
\* the newest child holding an index above the removed ones.
C7_Witness ==
    \E d \in Obj :
        /\ ghost.removals[d] > 0
        /\ Len(ghost.ilog[d]) >= 2
        /\ \E c \in obj[d].avl_index :
              /\ obj[c].index = ghost.ilog[d][Len(ghost.ilog[d])][2]
              /\ obj[c].index > Cardinality(obj[d].avl_index) + 1

\* ------------------------------------------------------------ teardown scenario
\* A store as a run of creates leaves it: AddChild is mem_create_obj run to
\* its end on a store given as a record.
AddChild(S, parent, name, type) ==
    LET new == CHOOSE o \in Obj : S.obj[o].st = "unalloc"
                                  /\ \A u \in Obj : S.obj[u].st = "unalloc" => o <= u
        o1 == mem_alloc_attrs(mem_alloc_handle(S.obj, new, parent, name, type, S.ino),
                              new, IdleTh)
        o2 == mem_insert_obj(o1, parent, new)
    IN  [obj |-> o2,
         handles |-> fsal_obj_handle_init(S.handles, new),
         ino |-> atomic_postinc_uint64_t(S.ino),
         ghost |-> LogInsert([S.ghost EXCEPT !.cpath[new] = fullpath(S.obj, parent, name)],
                             o2, parent, new),
         last |-> new]

RootStore ==
    [obj |-> [o \in Obj |-> IF o = RootObj THEN RootRec ELSE NoObj],
     handles |-> <<RootObj>>, ino |-> 2, ghost |-> InitGhost, last |-> RootObj]

\* The stores the scenario starts from: X, of any type, is a child of the
\* root or of a subdirectory; a directory X may hold a child of its own.
TeardownStores ==
    {LET S1 == IF deep THEN AddChild(RootStore, RootObj, <<"a">>, DIRECTORY) ELSE RootStore
         S2 == AddChild(S1, S1.last, nm, ty)
         S3 == IF ty = DIRECTORY /\ full THEN AddChild(S2, S2.last, <<"a">>, REGULAR_FILE)
               ELSE S2
     IN  [S3 EXCEPT !.ghost.subject = S2.last] :
       deep \in BOOLEAN, nm \in Names, ty \in Types, full \in BOOLEAN}

InitTeardown ==
    \E S \in TeardownStores :
        /\ obj = S.obj
        /\ handles = S.handles
        /\ mem_inode_number = S.ino
        /\ root_handle = RootObj
        /\ ghost = S.ghost
        /\ obj_lock = [o \in Obj |-> {}]
        /\ th = [t \in Threads |-> IdleTh]
        /\ state_fd = [s \in States |-> FSAL_O_CLOSED]
        /\ budget = 3

\* Thread 1 runs unlink(parent, X) and then release(X); thread 2 runs release(X).
NextTeardown ==
    \/ th[1].op = "none" /\ mem_unlink(1, DirOf(obj, ghost.subject), ghost.subject)
    \/ th[1].op = "unlink" /\ mem_release_call(1, ghost.subject)
    \/ mem_release_free(1)
    \/ th[2].op = "none" /\ mem_release_call(2, ghost.subject)
    \/ mem_release_free(2)

SpecTeardown == InitTeardown /\ [][NextTeardown]_vars

TeardownDone == \A t \in Threads : th[t].pc = "idle" /\ th[t].op = "release"

\* C1: for every interleaving of unlink(parent, X); release(X) in one thread
\* with release(X) in another, X's memory is never freed twice, and once both
\* threads have finished and X has left its parent's index it has been freed
\* exactly once.
C1_ExactlyOnce ==
    /\ ghost.nfree[ghost.subject] <= 1
    /\ (TeardownDone /\ ~obj[ghost.subject].inavl) => ghost.nfree[ghost.subject] = 1

\* ------------------------------------------------------------ readdir
\* The test that skips the entries before seekloc.
rd_before_seekloc_m(index, seekloc) == index <= seekloc
rd_before_seekloc(index, seekloc) == index < seekloc

\* The cookie handed to the callback with an entry.
rd_cookie_m(index) == index
rd_cookie(index) == index + 1

\* avltree_first / avltree_next on the index tree: the child with the least
\* index above `after` (NULL at the end of the tree).
avltree_next_index(o, dir, after) ==
    LET rest == {c \in o[dir].avl_index : o[c].index > after}
    IN  IF rest = {} THEN NULL
        ELSE CHOOSE c \in rest : \A d \in rest : o[c].index <= o[d].index

\* The directory's entries in index order, as <<object, index>> pairs.
RECURSIVE IndexOrder(_, _, _)
IndexOrder(o, dir, after) ==
    LET c == avltree_next_index(o, dir, after)
    IN  IF c = NULL THEN <<>>
        ELSE <<<<c, o[c].index>>>> \o IndexOrder(o, dir, o[c].index)

\* mem_readdir up to the loop: seekloc from whence (2 when the caller passes
\* none), *eof = true, the directory's read lock, fsal_private.
mem_readdir_call(t, dir, whence) ==
    /\ CanCall(t)
    /\ Resident(dir) /\ obj[dir].type = DIRECTORY
    /\ CanRdLock(obj_lock[dir])
    /\ budget' = budget - 1
    /\ obj_lock' = [obj_lock EXCEPT ![dir] = rdlock(@, t)]
    /\ th' = [th EXCEPT ![t] =
                [IdleTh EXCEPT !.pc = "rd_loop", !.op = "readdir", !.dir = dir,
                               !.fsal_private = dir,
                               !.seekloc = IF whence = NULL THEN 2 ELSE whence]]
    /\ UNCHANGED <<state_fd, obj, handles, mem_inode_number, root_handle, ghost>>

\* What the thread leaves behind when mem_readdir returns.
ReaddirRecord(t, out, eof, term) ==
    [dir |-> th[t].dir, seekloc |-> th[t].seekloc, out |-> out, eof |-> eof,
     term |-> term,
     snap |-> IndexOrder(obj, th[t].dir, 0),
     ninserts |-> Len(ghost.ilog[th[t].dir]),
     removals |-> ghost.removals[th[t].dir]]

mem_readdir_return(t, out, eof, term) ==
    /\ obj_lock' = [obj_lock EXCEPT ![th[t].dir] = unlock(@, t)]
    /\ ghost' = [ghost EXCEPT !.rds = Append(@, ReaddirRecord(t, out, eof, term))]
    /\ th' = [th EXCEPT ![t] = Return("readdir", ERR_FSAL_NO_ERROR, th[t].dir)]

\* One turn of the loop on an entry before seekloc.
mem_readdir_skip(t) ==
    /\ At(t, "rd_loop")
    /\ LET hdl == avltree_next_index(obj, th[t].dir, th[t].node)
       IN  /\ hdl # NULL
           /\ rd_before_seekloc(obj[hdl].index, th[t].seekloc)
           /\ th' = [th EXCEPT ![t].node = obj[hdl].index]
    /\ UNCHANGED <<state_fd, obj, handles, mem_inode_number, root_handle, obj_lock, budget, ghost>>

\* One turn of the loop on an entry the callback takes and asks for more.
mem_readdir_entry(t) ==
    /\ At(t, "rd_loop")
    /\ LET hdl == avltree_next_index(obj, th[t].dir, th[t].node)
       IN  /\ hdl # NULL
           /\ ~rd_before_seekloc(obj[hdl].index, th[t].seekloc)
           /\ th' = [th EXCEPT ![t].node = obj[hdl].index,
                               ![t].out = Append(@, <<hdl, rd_cookie(obj[hdl].index)>>),
                               \* what the callback looked up goes with it
                               ![t].name = <<>>, ![t].x = NULL]
    /\ UNCHANGED <<state_fd, obj, handles, mem_inode_number, root_handle, obj_lock, budget, ghost>>

\* The callback answers DIR_TERMINATE: *eof = false, the loop breaks,
\* fsal_private is cleared and the lock released.
mem_readdir_terminate(t) ==
    /\ At(t, "rd_loop")
    /\ LET hdl == avltree_next_index(obj, th[t].dir, th[t].node)
       IN  /\ hdl # NULL
           /\ ~rd_before_seekloc(obj[hdl].index, th[t].seekloc)
           /\ mem_readdir_return(t, Append(th[t].out, <<hdl, rd_cookie(obj[hdl].index)>>),
                                 FALSE, TRUE)
    /\ UNCHANGED <<state_fd, obj, handles, mem_inode_number, root_handle, budget>>

\* The tree is exhausted: fsal_private is cleared and the lock released.
mem_readdir_end(t) ==
    /\ At(t, "rd_loop")
    /\ avltree_next_index(obj, th[t].dir, th[t].node) = NULL
    /\ mem_readdir_return(t, th[t].out, th[t].eof, FALSE)
    /\ UNCHANGED <<state_fd, obj, handles, mem_inode_number, root_handle, budget>>

\* The cookies a caller may resume from: the last one the previous readdir
\* handed to its callback.
ResumeCookies ==
    IF ghost.rds # <<>> /\ ghost.rds[Len(ghost.rds)].out # <<>>
    THEN {ghost.rds[Len(ghost.rds)].out[Len(ghost.rds[Len(ghost.rds)].out)][2]}
    ELSE {}

RdNames == Names \cup {<<"c">>}

InitReaddir == InitStore /\ budget = MaxRdOps

\* Thread 1 enumerates the root directory, from the start or from the cookie
\* it stopped at; thread 2 creates and unlinks the root's children.
NextReaddir ==
    \/ \E w \in {NULL, 2} \cup ResumeCookies : mem_readdir_call(1, RootObj, w)
    \/ mem_readdir_skip(1)
    \/ mem_readdir_entry(1)
    \/ mem_readdir_terminate(1)
    \/ mem_readdir_end(1)
    \/ \E n \in RdNames : mem_create_call(2, RootObj, REGULAR_FILE, n)
    \/ mem_create_alloc(2)
    \/ mem_create_insert(2)
    \/ \E x \in Obj : mem_unlink(2, RootObj, x)

SpecReaddir == InitReaddir /\ [][NextReaddir]_vars

RdObjs(out) == {out[k][1] : k \in 1 .. Len(out)}

\* C8: a readdir of a directory that has seen N inserts and no removal, from
\* cookie 2 (or none) with a callback that never terminates, yields the N
\* children in insertion order, each once, each with the cookie index + 1,
\* the cookies strictly increasing, and reports eof = true.
C8_ReaddirInsertionOrder ==
    \A i \in 1 .. Len(ghost.rds) :
        LET r == ghost.rds[i]
            log == ghost.ilog[r.dir]
        IN  (r.seekloc = 2 /\ ~r.term /\ r.removals = 0) =>
              /\ r.eof
              /\ Len(r.out) = r.ninserts
              /\ \A k \in 1 .. Len(r.out) : r.out[k] = <<log[k][1], log[k][2] + 1>>
              /\ \A k \in 1 .. Len(r.out) - 1 : r.out[k][2] < r.out[k + 1][2]
              /\ \A j \in 1 .. Len(r.out) : \A k \in 1 .. Len(r.out) :
                    j # k => r.out[j][1] # r.out[k][1]
              /\ RdObjs(r.out) = RdObjs(r.snap)

\* C8 witness: such a readdir has returned three children.
C8_Witness ==
    \E i \in 1 .. Len(ghost.rds) :
        LET r == ghost.rds[i]
        IN  r.seekloc = 2 /\ ~r.term /\ r.removals = 0 /\ r.eof /\ Len(r.out) = 3

\* The readdir ghost.rds[i] resumes the interrupted readdir before it from
\* the cookie of the last entry that one yielded, and runs to the end.
Resumes(i) ==
    LET r1 == ghost.rds[i - 1]
        r2 == ghost.rds[i]
    IN  /\ r1.term /\ r1.out # <<>> /\ ~r2.term /\ r1.dir = r2.dir
        /\ r2.seekloc = r1.out[Len(r1.out)][2]

\* C9: a readdir resumed from the cookie C an interrupted readdir stopped at,
\* after entries were unlinked or created in between, yields exactly the
\* entries indexed at that time with index >= C, in index order; it repeats no
\* entry yielded before C and skips no surviving entry with index >= C; when
\* the interrupted readdir began at the start, these are exactly the indexed
\* entries not yet yielded.
C9_ResumeUnderMutation ==
    \A i \in 2 .. Len(ghost.rds) :
        LET r1 == ghost.rds[i - 1]
            r2 == ghost.rds[i]
            C == r2.seekloc
            rest == SelectSeq(r2.snap, LAMBDA e : e[2] >= C)
        IN  Resumes(i) =>
              /\ r2.eof
              /\ r2.out = [k \in 1 .. Len(rest) |-> <<rest[k][1], rest[k][2] + 1>>]
              /\ RdObjs(r2.out) \cap RdObjs(r1.out) = {}
              /\ \A k \in 1 .. Len(r1.snap) :
                    (r1.snap[k][2] >= C /\ r1.snap[k][1] \in RdObjs(r2.snap))
                        => r1.snap[k][1] \in RdObjs(r2.out)
              /\ r1.seekloc = 2 => RdObjs(r2.out) = RdObjs(r2.snap) \ RdObjs(r1.out)

\* C9 witness: between the interrupted readdir and the resumed one an entry
\* already yielded was unlinked and a new one created; the resumed readdir
\* yielded a survivor and the new entry.
C9_Witness ==
    \E i \in 2 .. Len(ghost.rds) :
        LET r1 == ghost.rds[i - 1]
            r2 == ghost.rds[i]
        IN  /\ Resumes(i) /\ r1.seekloc = 2
            /\ RdObjs(r1.out) \ RdObjs(r2.snap) # {}
            /\ RdObjs(r2.out) \ RdObjs(r1.snap) # {}
            /\ RdObjs(r2.out) \cap RdObjs(r1.snap) # {}

\* ------------------------------------------------------------ open, reopen, close
\* check_share_conflict: the requested access against the deny counters, the
\* requested denies against the access counters.
check_share_conflict(share, openflags, bypass) ==
    IF \/ FSAL_O_READ \in openflags /\ share.share_deny_read # 0 /\ ~bypass
       \/ FSAL_O_WRITE \in openflags /\ share.share_deny_write # 0 /\ ~bypass
       \/ FSAL_O_DENY_READ \in openflags /\ share.share_access_read # 0
       \/ FSAL_O_DENY_WRITE \in openflags /\ share.share_access_write # 0
    THEN ERR_FSAL_SHARE_DENIED
    ELSE ERR_FSAL_NO_ERROR

Bit(flag, openflags) == IF flag \in openflags THEN 1 ELSE 0

\* update_share_counters: each counter moves by the new flag minus the old.
update_share_counters(share, old_openflags, new_openflags) ==
    [share_access_read |-> share.share_access_read
        + Bit(FSAL_O_READ, new_openflags) - Bit(FSAL_O_READ, old_openflags),
     share_access_write |-> share.share_access_write
        + Bit(FSAL_O_WRITE, new_openflags) - Bit(FSAL_O_WRITE, old_openflags),
     share_deny_read |-> share.share_deny_read
        + Bit(FSAL_O_DENY_READ, new_openflags) - Bit(FSAL_O_DENY_READ, old_openflags),
     share_deny_write |-> share.share_deny_write
        + Bit(FSAL_O_DENY_WRITE, new_openflags) - Bit(FSAL_O_DENY_WRITE, old_openflags)]

\* check_verifier_attrlist: the verifier against the one kept in the file's
\* atime and mtime.
check_verifier_attrlist(rec, verifier) == rec.verf = verifier

\* What open and reopen do on FSAL_O_TRUNC: attrs.filesize and
\* attrs.spaceused are set to 0.
truncate_attrs(o, x, openflags) ==
    IF FSAL_O_TRUNC \in openflags
    THEN [o EXCEPT ![x].filesize = 0, ![x].spaceused = 0]
    ELSE o

\* What mem_open2 stores in my_fd->openflags: write implies read.
fd_openflags(openflags) ==
    IF FSAL_O_WRITE \in openflags THEN openflags \cup {FSAL_O_READ} ELSE openflags

\* The open flags callers pass: one access mode, alone or with the deny of
\* the other mode.
OpenFlagSets ==
    {{FSAL_O_READ}, {FSAL_O_WRITE},
     {FSAL_O_READ, FSAL_O_DENY_WRITE}, {FSAL_O_WRITE, FSAL_O_DENY_READ}}

\* Ghost bookkeeping: state s now holds an open on x / holds none.
LogOpen(g, s, x) == [g EXCEPT !.opens = Append(@, s), !.sobj[s] = x]
LogClose(g, s) ==
    [g EXCEPT !.opens = SelectSeq(@, LAMBDA u : u # s), !.sobj[s] = NULL]

\* A state_t the caller may hand to an open: one that holds no open and that
\* no open in flight was given.
FreshState(s) ==
    /\ ghost.sobj[s] = NULL
    /\ \A u \in Threads : th[u].pc = "idle" \/ th[u].state # s

\* mem_open2 by handle with a state: under the file's write lock the conflict
\* check and the counters, then my_fd->openflags.
mem_open2_handle_excl(t, x, s, openflags, createmode, verifier) ==
    /\ CanCall(t)
    /\ Resident(x) /\ obj[x].type = REGULAR_FILE
    /\ FreshState(s)
    /\ obj_lock[x] = {}
    /\ budget' = budget - 1
    /\ LET status == check_share_conflict(obj[x].share, openflags, FALSE)
           verf_ok == \/ ~AtLeastExclusive(createmode)
                      \/ createmode = FSAL_EXCLUSIVE_9P
                      \/ check_verifier_attrlist(obj[x], verifier)
       IN  IF status # ERR_FSAL_NO_ERROR
           THEN /\ th' = [th EXCEPT ![t] = Return("open2", status, x)]
                /\ UNCHANGED <<obj, state_fd, ghost>>
           ELSE IF ~verf_ok
           THEN \* EEXIST: my_fd is closed again and the counters are undone
                /\ th' = [th EXCEPT ![t] = Return("open2", ERR_FSAL_EXIST, x)]
                /\ state_fd' = [state_fd EXCEPT ![s] = FSAL_O_CLOSED]
                /\ obj' = truncate_attrs(obj, x, openflags)
                /\ UNCHANGED ghost
           ELSE /\ th' = [th EXCEPT ![t] =
                            [Return("open2", status, x) EXCEPT !.openflags = openflags]]
                /\ obj' = [truncate_attrs(obj, x, openflags) EXCEPT ![x].share =
                             update_share_counters(@, FSAL_O_CLOSED, openflags)]
                /\ state_fd' = [state_fd EXCEPT ![s] = fd_openflags(openflags)]
                /\ ghost' = LogOpen(ghost, s, x)
    /\ UNCHANGED <<handles, mem_inode_number, root_handle, obj_lock>>

\* The open by handle of a caller that is not creating.
mem_open2_handle(t, x, s, openflags) ==
    mem_open2_handle_excl(t, x, s, openflags, FSAL_NO_CREATE, 0)

\* mem_open2 by handle with no state: my_fd = &hdl->mh_file.fd with hdl still
\* NULL, then the store through my_fd.
mem_open2_handle_nostate(t, x, openflags) ==
    /\ CanCall(t)
    /\ Resident(x) /\ obj[x].type = REGULAR_FILE
    /\ obj_lock[x] = {}
    /\ budget' = budget - 1
    /\ th' = [th EXCEPT ![t] = [IdleTh EXCEPT !.pc = "aborted", !.op = "open2", !.x = x]]
    /\ UNCHANGED <<obj, handles, mem_inode_number, root_handle, obj_lock, state_fd, ghost>>

\* mem_open2 by name, its lookup (no lock held).
mem_open2_name_excl(t, dir, s, openflags, name, createmode, verifier, setattrs) ==
    /\ CanCall(t)
    /\ Resident(dir) /\ obj[dir].type = DIRECTORY
    /\ s # NULL => FreshState(s)
    /\ Cardinality(Unalloc) >
         Cardinality({u \in Threads : th[u].pc \in {"cr_alloc", "op_create"}})
    /\ budget' = budget - 1
    /\ LET hdl == mem_int_lookup(obj, dir, name)
       IN  th' = [th EXCEPT ![t] =
                    [IdleTh EXCEPT !.pc = IF hdl = NULL THEN "op_create" ELSE "op_fd",
                                   !.op = "open2", !.dir = dir, !.name = name,
                                   !.x = hdl, !.type = REGULAR_FILE,
                                   !.state = s, !.openflags = openflags,
                                   !.createmode = createmode, !.verifier = verifier,
                                   !.setattrs = setattrs]]
    /\ UNCHANGED <<obj, handles, mem_inode_number, root_handle, obj_lock, state_fd, ghost>>

\* The open by name of a caller that passes no verifier and no attributes.
mem_open2_name_call(t, dir, s, openflags, name) ==
    mem_open2_name_excl(t, dir, s, openflags, name, FSAL_UNCHECKED, 0, FALSE)

\* The name was not found: mem_create_obj is entered, its own test and lookup.
mem_open2_create(t) ==
    /\ At(t, "op_create")
    /\ th' = [th EXCEPT ![t] =
                IF mem_create_status(obj, th[t].dir, th[t].name) # ERR_FSAL_NO_ERROR
                THEN Return("open2", mem_create_status(obj, th[t].dir, th[t].name), NULL)
                ELSE [th[t] EXCEPT !.pc = "cr_alloc"]]
    /\ UNCHANGED <<obj, handles, mem_inode_number, root_handle, obj_lock, state_fd, budget, ghost>>

\* mem_copy_attrs_mask on a file the open by name found: atime and mtime
\* become the caller's (the verifier of an exclusive create) or the current
\* time.
mem_copy_attrs_mask(o, hdl, a) ==
    [o EXCEPT ![hdl].verf = IF AtLeastExclusive(a.createmode) THEN a.verifier ELSE 0]

\* The rest of the open by name: my_fd is the state's descriptor or the file's
\* global one; with a state the counters are updated under the file's write
\* lock.  No conflict check is made on this path.
mem_open2_fd(t) ==
    /\ At(t, "op_fd")
    /\ obj_lock[th[t].x] = {}
    /\ LET hdl == th[t].x
           s == th[t].state
           o1 == IF ~th[t].created /\ th[t].setattrs
                 THEN mem_copy_attrs_mask(obj, hdl, th[t]) ELSE obj
       IN  IF s = NULL
           THEN /\ obj' = [o1 EXCEPT ![hdl].fd = fd_openflags(th[t].openflags)]
                /\ UNCHANGED <<state_fd, ghost>>
           ELSE /\ obj' = [o1 EXCEPT ![hdl].share =
                             update_share_counters(@, FSAL_O_CLOSED, th[t].openflags)]
                /\ state_fd' = [state_fd EXCEPT ![s] = fd_openflags(th[t].openflags)]
                /\ ghost' = LogOpen(ghost, s, hdl)
    /\ th' = [th EXCEPT ![t] = Return("open2", ERR_FSAL_NO_ERROR, th[t].x)]
    /\ UNCHANGED <<handles, mem_inode_number, root_handle, obj_lock, budget>>

\* mem_reopen2: the check runs against the counters with the state's own old
\* share still in them; then the counters move from the old flags to the new.
mem_reopen2(t, x, s, openflags) ==
    /\ CanCall(t)
    /\ Resident(x) /\ ghost.sobj[s] = x
    /\ obj_lock[x] = {}
    /\ budget' = budget - 1
    /\ LET status == check_share_conflict(obj[x].share, openflags, FALSE)
       IN  /\ th' = [th EXCEPT ![t] =
                       [Return("reopen2", status, x) EXCEPT !.openflags = openflags]]
           /\ IF status # ERR_FSAL_NO_ERROR
              THEN UNCHANGED <<obj, state_fd>>
              ELSE /\ obj' = [truncate_attrs(obj, x, openflags) EXCEPT ![x].share =
                                update_share_counters(@, state_fd[s], openflags)]
                   /\ state_fd' = [state_fd EXCEPT ![s] = openflags]
    /\ UNCHANGED <<handles, mem_inode_number, root_handle, obj_lock, ghost>>

\* mem_close2 of a share state: the counters give back my_fd->openflags; then
\* mem_close_my_fd closes the file's global descriptor.
mem_close2(t, x, s) ==
    /\ CanCall(t)
    /\ Resident(x) /\ ghost.sobj[s] = x
    /\ obj_lock[x] = {}
    /\ budget' = budget - 1
    /\ obj' = [obj EXCEPT ![x].share = update_share_counters(@, state_fd[s], FSAL_O_CLOSED),
                          ![x].fd = FSAL_O_CLOSED]
    /\ ghost' = LogClose(ghost, s)
    /\ th' = [th EXCEPT ![t] = Return("close2", ERR_FSAL_NO_ERROR, x)]
    /\ UNCHANGED <<handles, mem_inode_number, root_handle, obj_lock, state_fd>>

\* The store the open/close behaviours start from: one regular file "a" in
\* the export root.
ShareStore == AddChild(RootStore, RootObj, <<"a">>, REGULAR_FILE)

InitShare ==
    /\ obj = ShareStore.obj
    /\ handles = ShareStore.handles
    /\ mem_inode_number = ShareStore.ino
    /\ root_handle = RootObj
    /\ ghost = ShareStore.ghost
    /\ obj_lock = [o \in Obj |-> {}]
    /\ th = [t \in Threads |-> IdleTh]
    /\ state_fd = [s \in States |-> FSAL_O_CLOSED]
    /\ budget = MaxShareOps

\* Thread 1 calls every method; thread 2 opens by name beside it.  The
\* methods other than the open by name are one step under the file's lock.
NextShare ==
    \/ \E x \in Obj, s \in States, f \in OpenFlagSets : mem_open2_handle(1, x, s, f)
    \/ \E x \in Obj, f \in OpenFlagSets : mem_open2_handle_nostate(1, x, f)
    \/ \E t \in Threads, s \in States \cup {NULL}, f \in OpenFlagSets, n \in Names :
          mem_open2_name_call(t, RootObj, s, f, n)
    \/ \E t \in Threads : mem_open2_create(t)
    \/ \E t \in Threads : mem_create_alloc(t)
    \/ \E t \in Threads : mem_create_insert(t)
    \/ \E t \in Threads : mem_open2_fd(t)
    \/ \E x \in Obj, s \in States, f \in OpenFlagSets : mem_reopen2(1, x, s, f)
    \/ \E x \in Obj, s \in States : mem_close2(1, x, s)
    \/ \E x \in Obj : mem_unlink(1, RootObj, x)

SpecShare == InitShare /\ [][NextShare]_vars

\* C10: no state in which a descriptor holds deny-write on a file while a
\* different descriptor, opened on the same file after it, holds write
\* access: the later open for write, by handle or by name, must have failed
\* with a share conflict.
C10_ShareConflict ==
    \A i \in 1 .. Len(ghost.opens) : \A j \in 1 .. Len(ghost.opens) :
        LET s1 == ghost.opens[i]
            s2 == ghost.opens[j]
        IN  (i < j /\ ghost.sobj[s1] = ghost.sobj[s2])
               => ~(FSAL_O_DENY_WRITE \in state_fd[s1] /\ FSAL_O_WRITE \in state_fd[s2])

\* The states that hold an open on x.
Openers(x) == {s \in States : ghost.sobj[s] = x}

\* C11: an open with a share state followed by close2 on that state leaves
\* the four share counters as they were before the open: a file no state
\* holds open has all four at zero, and no counter passes below zero (a
\* negative value here is an unsigned counter that wrapped).
C11_OpenCloseRoundTrip ==
    \A x \in Obj :
        (Resident(x) /\ obj[x].type = REGULAR_FILE) =>
            /\ obj[x].share.share_access_read >= 0
            /\ obj[x].share.share_access_write >= 0
            /\ obj[x].share.share_deny_read >= 0
            /\ obj[x].share.share_deny_write >= 0
            /\ Openers(x) = {} => obj[x].share = NoShare

\* C12: close2(x, s) leaves the descriptor of state s closed and changes no
\* other descriptor of x, the file's global descriptor included.
C12_CloseFrame ==
    [][\A x \in Obj : \A s \in States :
          mem_close2(1, x, s) =>
              /\ state_fd'[s] = FSAL_O_CLOSED
              /\ obj'[x].fd = obj[x].fd
              /\ \A u \in States \ {s} : state_fd'[u] = state_fd[u]]_vars

\* C13: a reopen by the only opener of the file never fails with a share
\* conflict, whatever the old and the new mode, and leaves the counters at
\* exactly the new mode's contribution.
C13_ReopenSoleOpener ==
    [][\A x \in Obj : \A s \in States : \A f \in OpenFlagSets :
          (Openers(x) = {s} /\ mem_reopen2(1, x, s, f)) =>
              /\ th'[1].ret = ERR_FSAL_NO_ERROR
              /\ obj'[x].share = update_share_counters(NoShare, FSAL_O_CLOSED, f)]_vars

\* C15: unlink of a directory D that has an indexed child fails with
\* ERR_FSAL_NOTEMPTY and changes nothing (D stays indexed, the link counts
\* stay); unlink of a D whose children have all been unlinked succeeds and
\* lookup of D's name in its parent no longer finds D.
C15_DirNotEmptyGuard ==
    [][\A t \in Threads : \A d \in Obj : \A x \in Obj :
          (mem_unlink(t, d, x) /\ obj[x].type = DIRECTORY /\ x \in obj[d].avl_index) =>
              IF obj[x].avl_index # {}
              THEN th'[t].ret = ERR_FSAL_NOTEMPTY /\ obj' = obj
              ELSE /\ th'[t].ret = ERR_FSAL_NO_ERROR
                   /\ x \notin obj'[d].avl_index
                   /\ mem_int_lookup(obj', d, obj[x].m_name) # x
                   /\ obj'[d].numlinks = obj[d].numlinks - 1]_vars

\* C15 witness: a directory that had a child inserted and unlinked has itself
\* been unlinked.
C15_Witness ==
    \E t \in Threads : \E x \in Obj :
        /\ th[t].op = "unlink" /\ th[t].ret = ERR_FSAL_NO_ERROR /\ th[t].x = x
        /\ obj[x].type = DIRECTORY /\ ~obj[x].inavl
        /\ Len(ghost.ilog[x]) > 0 /\ ghost.removals[x] > 0

\* C18: a create whose parent is not a directory fails with ERR_FSAL_NOTDIR,
\* one whose name is already a child of the parent fails with ERR_FSAL_EXIST;
\* either way no record is allocated, the inode counter stays, and the
\* parent's trees, next index and link count stay.
C18_CreateErrors ==
    [][\A t \in Threads : \A p \in Obj : \A ty \in Types : \A n \in Names :
          (mem_create_call(t, p, ty, n)
             /\ (obj[p].type # DIRECTORY \/ mem_int_lookup(obj, p, n) # NULL)) =>
              /\ th'[t].pc = "idle"
              /\ th'[t].ret = IF obj[p].type # DIRECTORY THEN ERR_FSAL_NOTDIR
                              ELSE ERR_FSAL_EXIST
              /\ obj' = obj /\ handles' = handles
              /\ mem_inode_number' = mem_inode_number]_vars

\* C18 witness: one create has failed on a parent that is a file or symlink,
\* another on a name already in the directory.
C18_Witness ==
    /\ th[1].op = "create" /\ th[1].ret = ERR_FSAL_NOTDIR
    /\ th[2].op = "create" /\ th[2].ret = ERR_FSAL_EXIST

\* C16: unlink of a regular file that has a descriptor not closed, the one
\* of a share state or the file's global one, fails with ERR_FSAL_FILE_OPEN
\* and leaves the file indexed.
C16_UnlinkOpenFile ==
    [][\A t \in Threads : \A d \in Obj : \A x \in Obj :
          (mem_unlink(t, d, x) /\ obj[x].type = REGULAR_FILE /\ obj[x].inavl
             /\ (obj[x].fd # FSAL_O_CLOSED \/ Openers(x) # {})) =>
              /\ th'[t].ret = ERR_FSAL_FILE_OPEN
              /\ obj' = obj]_vars

\* ------------------------------------------------------------ exclusive create
Verifiers == {1, 2}

InitExcl == InitStore /\ budget = MaxExclOps

\* One thread opens by name and by handle, with and without a verifier.
NextExcl ==
    \/ \E s \in States \cup {NULL}, f \in {{FSAL_O_READ}, {FSAL_O_WRITE}}, n \in Names,
          cm \in {FSAL_UNCHECKED, FSAL_EXCLUSIVE}, v \in Verifiers, sa \in BOOLEAN :
          mem_open2_name_excl(1, RootObj, s, f, n, cm, v, sa)
    \/ mem_open2_create(1)
    \/ mem_create_alloc(1)
    \/ mem_create_insert(1)
    \/ mem_open2_fd(1)
    \/ \E x \in Obj, s \in States, cm \in {FSAL_NO_CREATE, FSAL_EXCLUSIVE, FSAL_EXCLUSIVE_9P},
          v \in Verifiers :
          mem_open2_handle_excl(1, x, s, {FSAL_O_READ}, cm, v)
    \/ \E x \in Obj, s \in States : mem_close2(1, x, s)

SpecExcl == InitExcl /\ [][NextExcl]_vars

\* C17: an open by name in exclusive create mode that finds the name already
\* there, with a verifier other than the one stamped into the file, fails
\* with ERR_FSAL_EXIST, opens no descriptor and leaves the share counters.
C17_ExclusiveVerifier ==
    [][\A t \in Threads :
          (mem_open2_fd(t) /\ ~th[t].created /\ AtLeastExclusive(th[t].createmode)
             /\ ~check_verifier_attrlist(obj[th[t].x], th[t].verifier)) =>
              /\ th'[t].ret = ERR_FSAL_EXIST
              /\ obj'[th[t].x].share = obj[th[t].x].share
              /\ obj'[th[t].x].fd = obj[th[t].x].fd
              /\ state_fd' = state_fd]_vars

\* ------------------------------------------------------------ read and write
\* The byte mem_read2 hands out for the positions past the stored data ('a').
Filler == 97

\* Offsets and sizes are unsigned: a sum past the largest value wraps.
wrap(n) == n % (OffsetMax + 1)

\* open_correct: the descriptor is open for the access asked.
open_correct(my_openflags, to_open) == to_open \in my_openflags

\* mem_read2, the clamp of buffer_size on mh_file.length.
mem_read2_size(rec, offset, buffer_size) ==
    IF offset > rec.length THEN 0
    ELSE IF wrap(offset + buffer_size) > rec.length THEN rec.length - offset
    ELSE buffer_size

\* mem_read2, the bytes put in the buffer: the stored data up to datasize,
\* the filler from there on.
mem_read2_buffer(rec, offset, buffer_size) ==
    LET readsize == IF offset < InodeSize THEN Min(buffer_size, InodeSize - offset) ELSE 0
    IN  [i \in 1 .. buffer_size |-> IF i <= readsize THEN rec.data[offset + i] ELSE Filler]

\* The status mem_read2 settles on before it reads.
mem_read2_status(rec, fd_state, hasstate, bypass, info) ==
    IF info THEN ERR_FSAL_NOTSUPP
    ELSE IF hasstate /\ ~open_correct(fd_state, FSAL_O_READ) THEN ERR_FSAL_NOT_OPENED
    ELSE check_share_conflict(rec.share, {FSAL_O_READ}, bypass)

\* A state the caller may pass with a file: none, one open on the file, or
\* one that holds no open.
StateFor(x, s) == IF s = NULL THEN TRUE ELSE ghost.sobj[s] \in {x, NULL}

mem_read2(t, x, s, bypass, offset, buffer_size, info) ==
    /\ CanCall(t)
    /\ Resident(x) /\ obj[x].type = REGULAR_FILE
    /\ StateFor(x, s)
    /\ budget' = budget - 1
    /\ LET status == mem_read2_status(obj[x], IF s = NULL THEN obj[x].fd ELSE state_fd[s],
                                      s # NULL, bypass, info)
           size == mem_read2_size(obj[x], offset, buffer_size)
       IN  th' = [th EXCEPT ![t] =
                    IF status # ERR_FSAL_NO_ERROR THEN Return("read2", status, x)
                    ELSE [Return("read2", status, x) EXCEPT
                             !.out = mem_read2_buffer(obj[x], offset, size),
                             !.amount = size,
                             !.eof = (size = 0)]]
    /\ UNCHANGED <<obj, handles, mem_inode_number, root_handle, obj_lock, state_fd, ghost>>

\* The status mem_write2 settles on before it writes: the share check is
\* made only when the caller passes no state.
mem_write2_status(rec, fd_state, hasstate, bypass, info) ==
    IF info THEN ERR_FSAL_NOTSUPP
    ELSE IF hasstate
    THEN IF open_correct(fd_state, FSAL_O_WRITE) THEN ERR_FSAL_NO_ERROR
         ELSE ERR_FSAL_NOT_OPENED
    ELSE check_share_conflict(rec.share, {FSAL_O_WRITE}, bypass)

\* mem_write2, the file after the write: length and attrs.filesize grow to
\* offset + buffer_size, the bytes that fit below datasize are stored.
mem_write2_file(rec, offset, buffer) ==
    LET buffer_size == Len(buffer)
        writesize == IF offset < InodeSize THEN Min(buffer_size, InodeSize - offset) ELSE 0
        r1 == IF wrap(offset + buffer_size) > rec.length
              THEN [rec EXCEPT !.length = wrap(offset + buffer_size),
                               !.filesize = wrap(offset + buffer_size)]
              ELSE rec
    IN  [r1 EXCEPT !.data = [i \in 1 .. Len(rec.data) |->
                                IF offset < i /\ i <= offset + writesize
                                THEN buffer[i - offset] ELSE rec.data[i]]]

\* Ghost bookkeeping: the byte most recently written at each position below
\* the data capacity.
LogWrite(g, x, offset, buffer) ==
    [g EXCEPT !.shadow[x] = [i \in 1 .. InodeSize |->
                                IF offset < i /\ i <= offset + Len(buffer)
                                THEN buffer[i - offset] ELSE g.shadow[x][i]]]

mem_write2(t, x, s, bypass, offset, buffer, info) ==
    /\ CanCall(t)
    /\ Resident(x) /\ obj[x].type = REGULAR_FILE
    /\ StateFor(x, s)
    /\ budget' = budget - 1
    /\ LET status == mem_write2_status(obj[x], IF s = NULL THEN obj[x].fd ELSE state_fd[s],
                                       s # NULL, bypass, info)
       IN  IF status # ERR_FSAL_NO_ERROR
           THEN /\ th' = [th EXCEPT ![t] = Return("write2", status, x)]
                /\ UNCHANGED <<obj, ghost>>
           ELSE /\ th' = [th EXCEPT ![t] =
                            [Return("write2", status, x) EXCEPT !.amount = Len(buffer)]]
                /\ obj' = [obj EXCEPT ![x] = mem_write2_file(@, offset, buffer)]
                /\ ghost' = LogWrite(ghost, x, offset, buffer)
    /\ UNCHANGED <<handles, mem_inode_number, root_handle, obj_lock, state_fd>>

\* The inputs of the read/write behaviours.
Offsets == 0 .. OffsetMax
WriteBufs == {[i \in 1 .. n |-> b] : n \in 0 .. MaxBuf, b \in {1, 2}}
DataFlagSets ==
    {{FSAL_O_READ, FSAL_O_WRITE}, {FSAL_O_WRITE, FSAL_O_TRUNC},
     {FSAL_O_READ, FSAL_O_DENY_READ, FSAL_O_DENY_WRITE}}

InitData ==
    /\ obj = ShareStore.obj
    /\ handles = ShareStore.handles
    /\ mem_inode_number = ShareStore.ino
    /\ root_handle = RootObj
    /\ ghost = ShareStore.ghost
    /\ obj_lock = [o \in Obj |-> {}]
    /\ th = [t \in Threads |-> IdleTh]
    /\ state_fd = [s \in States |-> FSAL_O_CLOSED]
    /\ budget = MaxDataOps

\* One thread opens, reopens, writes and reads the file.
NextData ==
    \/ \E x \in Obj, s \in States, f \in DataFlagSets : mem_open2_handle(1, x, s, f)
    \/ \E x \in Obj, s \in States, f \in DataFlagSets : mem_reopen2(1, x, s, f)
    \/ \E x \in Obj, s \in States \cup {NULL}, bypass \in BOOLEAN, offset \in Offsets,
          buffer \in WriteBufs, info \in BOOLEAN :
          mem_write2(1, x, s, bypass, offset, buffer, info)
    \/ \E x \in Obj, s \in States \cup {NULL}, bypass \in BOOLEAN, offset \in Offsets,
          buffer_size \in 0 .. MaxBuf, info \in BOOLEAN :
          mem_read2(1, x, s, bypass, offset, buffer_size, info)

SpecData == InitData /\ [][NextData]_vars

\* The bytes of the file from offset up to its logical length, as a read
\* is to return them.
BytesToEnd(rec, offset) ==
    [i \in 1 .. (IF offset < rec.length THEN rec.length - offset ELSE 0) |->
        IF offset + i <= InodeSize THEN rec.data[offset + i] ELSE Filler]

\* C14: after a successful open or reopen with the truncate flag, a read at
\* offset 0 made next returns no bytes and end-of-file, whatever was written
\* before.
C14_TruncateResets ==
    [][\A x \in Obj : \A s \in States \cup {NULL} : \A bypass \in BOOLEAN :
       \A buffer_size \in 0 .. MaxBuf :
          (/\ th[1].op \in {"open2", "reopen2"} /\ th[1].ret = ERR_FSAL_NO_ERROR
           /\ th[1].x = x /\ FSAL_O_TRUNC \in th[1].openflags
           /\ mem_read2(1, x, s, bypass, 0, buffer_size, FALSE)
           /\ th'[1].ret = ERR_FSAL_NO_ERROR) =>
              th'[1].out = <<>> /\ th'[1].eof]_vars

\* C19: a read whose range runs past the logical length returns the bytes
\* from offset up to the logical length, none when offset is at or past the
\* end, and reports end-of-file, also when it returns some bytes.
C19_ReadPastEnd ==
    [][\A x \in Obj : \A s \in States \cup {NULL} : \A bypass \in BOOLEAN :
       \A offset \in Offsets : \A buffer_size \in 0 .. MaxBuf :
          (/\ mem_read2(1, x, s, bypass, offset, buffer_size, FALSE)
           /\ th'[1].ret = ERR_FSAL_NO_ERROR
           /\ offset + buffer_size > obj[x].length) =>
              th'[1].out = BytesToEnd(obj[x], offset) /\ th'[1].eof]_vars

\* C20: after a write, the logical length is offset + len(bytes) when that
\* is beyond the length before; the stored data keeps its capacity; a read
\* of the whole logical range returns, below the capacity, the byte most
\* recently written at each position (zero when none was), and the filler
\* from the capacity on.
C20_DataFill ==
    [][\A x \in Obj : \A s \in States \cup {NULL} : \A bypass \in BOOLEAN :
       \A offset \in Offsets : \A buffer \in WriteBufs :
          (/\ mem_write2(1, x, s, bypass, offset, buffer, FALSE)
           /\ th'[1].ret = ERR_FSAL_NO_ERROR) =>
              /\ obj'[x].length = IF offset + Len(buffer) > obj[x].length
                                  THEN offset + Len(buffer) ELSE obj[x].length
              /\ Len(obj'[x].data) = InodeSize
              /\ LET n == mem_read2_size(obj'[x], 0, obj'[x].length)
                     r == mem_read2_buffer(obj'[x], 0, n)
                 IN  /\ n = obj'[x].length
                     /\ \A i \in 1 .. n :
                           r[i] = IF i <= InodeSize THEN ghost'.shadow[x][i] ELSE Filler]_vars

\* ------------------------------------------------------------ getattrs
\* Mutant: the test forgets the export root.
mem_getattrs_stale_m(rec) == ~rec.inavl

\* The test that opens mem_getattrs: an entry with a parent that is in no
\* index has been removed.
mem_getattrs_stale(rec) == rec.parent # NULL /\ ~rec.inavl

\* The status mem_getattrs returns.
mem_getattrs_status(o, x) ==
    IF mem_getattrs_stale(o[x]) THEN ERR_FSAL_STALE ELSE ERR_FSAL_NO_ERROR

\* mem_getattrs past the test: attrs.numlinks is refreshed from
\* mh_dir.numlinks.
mem_getattrs_refresh(o, x) == [o EXCEPT ![x].attrs_numlinks = o[x].numlinks]

\* The attributes fsal_copy_attrs hands to the caller.
fsal_copy_attrs(rec) ==
    [type |-> rec.type, fileid |-> rec.fileid, filesize |-> rec.filesize,
     spaceused |-> rec.spaceused, numlinks |-> rec.attrs_numlinks]

\* mem_getattrs: no lock is taken.
mem_getattrs(t, x) ==
    /\ CanCall(t)
    /\ Resident(x)
    /\ budget' = budget - 1
    /\ IF mem_getattrs_stale(obj[x])
       THEN /\ th' = [th EXCEPT ![t] = Return("getattrs", ERR_FSAL_STALE, x)]
            /\ UNCHANGED obj
       ELSE /\ obj' = mem_getattrs_refresh(obj, x)
            /\ th' = [th EXCEPT ![t] =
                        [Return("getattrs", ERR_FSAL_NO_ERROR, x) EXCEPT
                            !.out = <<fsal_copy_attrs(obj'[x])>>]]
    /\ UNCHANGED <<handles, mem_inode_number, root_handle, obj_lock, state_fd, ghost>>

\* mem_create_handle as a call: the length test, then the scan of
\* fsal->handles under the module's lock.
mem_create_handle_call(t, hdl_desc, len_ok) ==
    /\ CanCall(t)
    /\ budget' = budget - 1
    /\ LET hdl == mem_create_handle(obj, handles, hdl_desc)
       IN  th' = [th EXCEPT ![t] =
                    IF ~len_ok THEN Return("create_handle", ERR_FSAL_BADHANDLE, NULL)
                    ELSE IF hdl = NULL THEN Return("create_handle", ERR_FSAL_STALE, NULL)
                    ELSE Return("create_handle", ERR_FSAL_NO_ERROR, hdl)]
    /\ UNCHANGED <<obj, handles, mem_inode_number, root_handle, obj_lock, state_fd, ghost>>

\* The handles a client may present: one it was given for an object some
\* method handed out at some time, or bytes no object was ever given.
WireHandles ==
    {obj[x].handle : x \in {o \in Obj : Published(o)}}
        \cup {package_mem_handle(<<"c">>)}

InitAttr == InitStore /\ budget = MaxAttrOps

\* Worker threads calling the handle methods, getattrs and the resolve of a
\* wire handle among them.
NextAttr ==
    \E t \in Threads :
        \/ Step(t)
        \/ \E x \in Obj : Published(x) /\ mem_getattrs(t, x)
        \/ \E h \in WireHandles, len_ok \in BOOLEAN : mem_create_handle_call(t, h, len_ok)

SpecAttr == InitAttr /\ [][NextAttr]_vars

\* An object removed from its directory that its memory still holds.
RemovedReferenced(o, x) == o[x].st = "resident" /\ o[x].parent # NULL /\ ~o[x].inavl

\* C21: after a write, the size and the space used that getattrs reports
\* both equal the file's logical length; a write that ends past the length
\* brings both to offset + len(bytes).
C21_WriteExtendsAttrs ==
    [][\A x \in Obj : \A s \in States \cup {NULL} : \A bypass \in BOOLEAN :
       \A offset \in Offsets : \A buffer \in WriteBufs :
          (/\ mem_write2(1, x, s, bypass, offset, buffer, FALSE)
           /\ th'[1].ret = ERR_FSAL_NO_ERROR) =>
              LET a == fsal_copy_attrs(mem_getattrs_refresh(obj', x)[x])
              IN  /\ mem_getattrs_status(obj', x) = ERR_FSAL_NO_ERROR
                  /\ a.filesize = obj'[x].length
                  /\ a.spaceused = obj'[x].length
                  /\ offset + Len(buffer) > obj[x].length =>
                        /\ a.filesize = offset + Len(buffer)
                        /\ a.spaceused = offset + Len(buffer)]_vars

\* C22: getattrs on an object that was removed from its directory and is
\* not yet freed returns ERR_FSAL_STALE and changes no attribute; getattrs
\* on the export root or on an indexed object never returns ERR_FSAL_STALE.
C22_GetattrsStale ==
    [][\A t \in Threads : \A x \in Obj :
          mem_getattrs(t, x) =>
              /\ RemovedReferenced(obj, x) =>
                    th'[t].ret = ERR_FSAL_STALE /\ obj' = obj
              /\ Live(x) => th'[t].ret = ERR_FSAL_NO_ERROR]_vars

\* C22 witness: one getattrs has returned ERR_FSAL_STALE on a removed object
\* that is still resident, another has returned the attributes of the
\* export root.
C22_Witness ==
    \E t \in Threads : \E u \in Threads :
        /\ th[t].op = "getattrs" /\ th[t].ret = ERR_FSAL_STALE
        /\ RemovedReferenced(obj, th[t].x)
        /\ th[u].op = "getattrs" /\ th[u].ret = ERR_FSAL_NO_ERROR
        /\ th[u].x = RootObj

\* C23: the resolve of a wire handle returns ERR_FSAL_STALE when the handle
\* is that of an object removed from its directory and not yet released, and
\* when no object carries it; an object it returns is live.
C23_ResolveStale ==
    [][\A t \in Threads : \A h \in WireHandles :
          mem_create_handle_call(t, h, TRUE) =>
              /\ (\E x \in Obj : RemovedReferenced(obj, x) /\ obj[x].handle = h
                                 /\ \A y \in Obj : Live(y) => obj[y].handle # h)
                    => th'[t].ret = ERR_FSAL_STALE
              /\ (\A x \in Obj : obj[x].st = "resident" => obj[x].handle # h)
                    => th'[t].ret = ERR_FSAL_STALE
              /\ th'[t].ret = ERR_FSAL_NO_ERROR => Live(th'[t].x)]_vars

\* ------------------------------------------------------------ recursive teardown
\* mem_clean_dir_tree called on a directory from outside mem_release (the
\* export's teardown): the whole loop runs under the directory's write lock.
mem_clean_dir_tree_call(t, dir) ==
    /\ CanCall(t)
    /\ Resident(dir) /\ obj[dir].type = DIRECTORY
    /\ obj_lock[dir] = {}
    /\ budget' = budget - 1
    /\ LET S == mem_clean_dir_tree([obj |-> obj, handles |-> handles, nfree |-> ghost.nfree],
                                   dir)
       IN  /\ obj' = S.obj
           /\ handles' = S.handles
           /\ ghost' = [ghost EXCEPT !.nfree = S.nfree]
    /\ th' = [th EXCEPT ![t] = Return("clean_dir_tree", ERR_FSAL_NO_ERROR, dir)]
    /\ UNCHANGED <<state_fd, mem_inode_number, root_handle, obj_lock>>

\* mem_unlink run to its end on a store given as a record.
RemoveChild(S, parent, child) ==
    [S EXCEPT !.obj = mem_unlink_obj(S.obj, parent, child),
              !.ghost = LogRemove(S.ghost, S.obj, parent, child)]

\* The stores the teardown starts from: a directory D under the root, still
\* indexed or unlinked while it was empty, and up to two objects created
\* under D afterwards, side by side or one inside the other.
CleanStores ==
    {LET S1 == AddChild(RootStore, RootObj, <<"a">>, DIRECTORY)
         D == S1.last
         S2 == IF removed THEN RemoveChild(S1, RootObj, D) ELSE S1
         S3 == IF n >= 1 THEN AddChild(S2, D, <<"a">>, ty1) ELSE S2
         S4 == IF n = 2
               THEN AddChild(S3, IF nested /\ ty1 = DIRECTORY THEN S3.last ELSE D,
                             <<"b">>, ty2)
               ELSE S3
     IN  [S4 EXCEPT !.ghost.subject = D] :
       removed \in BOOLEAN, n \in 0 .. 2, ty1 \in Types, ty2 \in Types,
       nested \in BOOLEAN}

InitClean ==
    \E S \in CleanStores :
        /\ obj = S.obj
        /\ handles = S.handles
        /\ mem_inode_number = S.ino
        /\ root_handle = RootObj
        /\ ghost = S.ghost
        /\ obj_lock = [o \in Obj |-> {}]
        /\ th = [t \in Threads |-> IdleTh]
        /\ state_fd = [s \in States |-> FSAL_O_CLOSED]
        /\ budget = 2

\* One thread releases D or an object under it, or cleans a directory.
NextClean ==
    \/ \E x \in Obj : Resident(x) /\ mem_release_call(1, x)
    \/ mem_release_free(1)
    \/ \E d \in Obj : mem_clean_dir_tree_call(1, d)

SpecClean == InitClean /\ [][NextClean]_vars

\* The objects indexed under d, at any depth.
RECURSIVE Subtree(_, _)
Subtree(o, d) ==
    UNION {{c} \cup Subtree(o, c) : c \in o[d].avl_index \cup o[d].avl_name}

\* What a finished teardown of directory d leaves: d's trees empty, its link
\* count 2, every object of its subtree out of every index, off the handle
\* list and freed once, and no resident object indexed in a freed directory.
TornDown(d, sub) ==
    /\ obj'[d].avl_name = {} /\ obj'[d].avl_index = {}
    /\ obj'[d].numlinks = 2
    /\ \A y \in sub :
          /\ obj'[y].st = "freed"
          /\ ~obj'[y].inavl /\ IndexedIn(obj', y) = {}
          /\ ghost'.nfree[y] = 1
          /\ \A i \in 1 .. Len(handles') : handles'[i] # y
    /\ \A y \in Obj : \A p \in IndexedIn(obj', y) : obj'[p].st = "resident"

\* C24: when release frees a removed directory D, or mem_clean_dir_tree is
\* run on a directory, the teardown ends with D's index empty, its link count
\* 2 and every object of D's subtree removed from its index and freed exactly
\* once; no object stays indexed under a freed directory.
C24_RecursiveTeardown ==
    [][/\ \A d \in Obj : mem_clean_dir_tree_call(1, d) => TornDown(d, Subtree(obj, d))
       /\ (mem_release_free(1) /\ obj[th[1].x].type = DIRECTORY) =>
             /\ TornDown(th[1].x, Subtree(obj, th[1].x))
             /\ obj'[th[1].x].st = "freed"
             /\ ghost'.nfree[th[1].x] = 1]_vars

\* C24 witness: the release of a removed directory has freed it together
\* with a subdirectory and the object inside that.
C24_Witness ==
    /\ th[1].op = "release" /\ th[1].ret = "freed"
    /\ obj[th[1].x].type = DIRECTORY
    /\ \E c \in Obj : \E g \in Obj :
          /\ obj[c].parent = th[1].x /\ obj[g].parent = c
          /\ obj[c].st = "freed" /\ obj[g].st = "freed"

\* ------------------------------------------------------------ inode numbers
\* C25: under any interleaving of creates no two objects ever carry the same
\* inode number, an object allocated after another carries a larger one, and
\* an object's inode number never changes.
C25_InodeNumbers ==
    [][/\ \A x \in Obj : \A y \in Obj :
             (x # y /\ obj'[x].st # "unalloc" /\ obj'[y].st # "unalloc")
                => obj'[x].fileid # obj'[y].fileid
       /\ \A x \in Obj :
             obj[x].st # "unalloc" => obj'[x].fileid = obj[x].fileid
       /\ \A x \in Obj :
             (obj[x].st = "unalloc" /\ obj'[x].st # "unalloc") =>
                \A y \in Obj : obj[y].st # "unalloc" => obj'[x].fileid > obj[y].fileid]_vars

\* C25 witness: two creates are in flight at once, each past its allocation
\* and before its insert, and a third object was created before them.
C25_Witness ==
    /\ th[1].pc = "cr_insert" /\ th[2].pc = "cr_insert"
    /\ obj[th[1].x].fileid # obj[th[2].x].fileid
    /\ \E z \in Obj \ {RootObj} : obj[z].inavl
                                  /\ obj[z].fileid < obj[th[1].x].fileid
                                  /\ obj[z].fileid < obj[th[2].x].fileid

C28_DualIndex ==
    \A d \in Obj :
        (obj[d].st = "resident" /\ obj[d].type = DIRECTORY) =>
            /\ obj[d].avl_name = obj[d].avl_index
            /\ \A c \in obj[d].avl_name \cup obj[d].avl_index : obj[c].inavl
            /\ obj[d].numlinks = 2 + Cardinality(obj[d].avl_index)

\* ------------------------------------------------------------ lookup
\* Mutant: the lookup never takes its caller for the holder of the lock.
mem_lookup_skips_lock_m(fsal_private, parent) == FALSE

\* mem_lookup, its test of op_ctx->fsal_private: the context already holds
\* the lock on this directory.
mem_lookup_skips_lock(fsal_private, parent) == fsal_private = parent

\* The status mem_lookup returns for what mem_int_lookup found.
mem_lookup_status(hdl) == IF hdl = NULL THEN ERR_FSAL_NOENT ELSE ERR_FSAL_NO_ERROR

\* mem_lookup called by a thread that runs no other method: the read lock
\* (unless the context holds it) and mem_int_lookup.
mem_lookup_call(t, parent, path) ==
    /\ CanCall(t)
    /\ Resident(parent) /\ obj[parent].type = DIRECTORY
    /\ budget' = budget - 1
    /\ IF mem_lookup_skips_lock(th[t].fsal_private, parent)
       THEN UNCHANGED obj_lock
       ELSE /\ CanRdLock(obj_lock[parent])
            /\ obj_lock' = [obj_lock EXCEPT ![parent] = rdlock(@, t)]
    /\ LET hdl == mem_int_lookup(obj, parent, path)
       IN  th' = [th EXCEPT ![t] =
                    [IdleTh EXCEPT !.pc = "lk_unlock", !.op = "lookup", !.dir = parent,
                                   !.name = path, !.x = hdl,
                                   !.ret = mem_lookup_status(hdl)]]
    /\ UNCHANGED <<obj, handles, mem_inode_number, root_handle, state_fd, ghost>>

\* mem_lookup from "out:" on: the unlock (unless the context holds the lock)
\* and the return.
mem_lookup_unlock(t) ==
    /\ At(t, "lk_unlock")
    /\ obj_lock' = IF mem_lookup_skips_lock(th[t].fsal_private, th[t].dir) THEN obj_lock
                   ELSE [obj_lock EXCEPT ![th[t].dir] = unlock(@, t)]
    /\ th' = [th EXCEPT ![t] = Return("lookup", th[t].ret, th[t].x)]
    /\ UNCHANGED <<obj, handles, mem_inode_number, root_handle, state_fd, budget, ghost>>

\* mem_lookup called from the readdir callback, in the context that runs
\* mem_readdir: both halves of the lookup in one step.  The thread keeps what
\* the lookup found.  The callback looks up one name for an entry.
mem_readdir_cb_lookup(t, parent, path) ==
    /\ At(t, "rd_loop")
    /\ th[t].name = <<>>
    /\ LET hdl == avltree_next_index(obj, th[t].dir, th[t].node)
       IN  hdl # NULL /\ ~rd_before_seekloc(obj[hdl].index, th[t].seekloc)
    /\ Resident(parent) /\ obj[parent].type = DIRECTORY
    /\ IF mem_lookup_skips_lock(th[t].fsal_private, parent)
       THEN UNCHANGED obj_lock
       ELSE /\ CanRdLock(obj_lock[parent])
            /\ obj_lock' = [obj_lock EXCEPT ![parent] = unlock(rdlock(@, t), t)]
    /\ th' = [th EXCEPT ![t].name = path, ![t].x = mem_int_lookup(obj, parent, path)]
    /\ UNCHANGED <<obj, handles, mem_inode_number, root_handle, state_fd, budget, ghost>>

InitLookup == InitStore /\ budget = MaxLkOps

\* Both threads enumerate directories, look names up from the callback and
\* from outside, and create objects.
NextLookup ==
    \E t \in Threads :
        \/ \E d \in Obj : mem_readdir_call(t, d, NULL)
        \/ mem_readdir_entry(t)
        \/ mem_readdir_terminate(t)
        \/ mem_readdir_end(t)
        \/ \E d \in Obj, n \in Names : mem_readdir_cb_lookup(t, d, n)
        \/ \E d \in Obj, n \in Names : mem_lookup_call(t, d, n)
        \/ mem_lookup_unlock(t)
        \/ \E d \in Obj, n \in Names : mem_create_call(t, d, DIRECTORY, n)
        \/ mem_create_alloc(t)
        \/ mem_create_insert(t)

SpecLookup == InitLookup /\ [][NextLookup]_vars

\* C30: a lookup on D from D's own readdir callback leaves D's lock alone; a
\* lookup from another context takes D's read lock and gives it back; when
\* readdir returns, the context's marker is cleared and the read lock it took
\* is given back, once: a thread that runs no method holds no lock.
C30_ReentrantLookup ==
    [][\A t \in Threads :
          /\ \A d \in Obj : \A n \in Names :
                (mem_readdir_cb_lookup(t, d, n) /\ d = th[t].dir) =>
                    /\ obj_lock' = obj_lock
                    /\ th'[t].fsal_private = th[t].fsal_private
          /\ \A d \in Obj : \A n \in Names :
                mem_lookup_call(t, d, n) =>
                    /\ t \notin obj_lock[d]
                    /\ obj_lock' = [obj_lock EXCEPT ![d] = @ \cup {t}]
          /\ mem_lookup_unlock(t) =>
                /\ t \in obj_lock[th[t].dir]
                /\ obj_lock' = [obj_lock EXCEPT ![th[t].dir] = @ \ {t}]
          /\ (th[t].pc = "rd_loop" /\ th'[t].pc = "idle") =>
                /\ t \in obj_lock[th[t].dir]
                /\ obj_lock' = [obj_lock EXCEPT ![th[t].dir] = @ \ {t}]
                /\ th'[t].fsal_private = NULL
          /\ th'[t].pc = "idle" => \A d \in Obj : t \notin obj_lock'[d]]_vars

\* C30 witness: thread 1 is inside a readdir of the root and has looked a
\* name up there from the callback, finding it, while thread 2, outside any
\* readdir, holds the root's read lock for a lookup of its own.
C30_Witness ==
    /\ th[1].pc = "rd_loop" /\ th[1].dir = RootObj /\ th[1].fsal_private = RootObj
    /\ th[1].name # <<>> /\ th[1].x # NULL
    /\ th[2].pc = "lk_unlock" /\ th[2].dir = RootObj
    /\ obj_lock[RootObj] = {1, 2}

\* ------------------------------------------------------------ the share counters and the lock
\* The open, reopen and close methods step by step: the write lock is taken
\* in one step and given back in a later one, and update_share_counters is a
\* read of the counters followed by a store.

\* A state_t no call in flight was given (the caller holds its state_lock).
StateUnused(s) == \A u \in Threads : th[u].pc = "idle" \/ th[u].state # s

\* What a thread keeps when it enters update_share_counters.
share_read(rec, x, from, to) ==
    [rec EXCEPT !.share = obj[x].share, !.from = from, !.to = to]

\* update_share_counters stores the counters it read, moved from one set of
\* flags to the other.
share_store(o, t) ==
    [o EXCEPT ![th[t].x].share = update_share_counters(th[t].share, th[t].from, th[t].to)]

\* mem_open2 by handle with a state: the write lock and check_share_conflict;
\* on a conflict the unlock and the return.
mem_open2_handle_lock(t, x, s, openflags, createmode, verifier) ==
    /\ CanCall(t)
    /\ Resident(x) /\ obj[x].type = REGULAR_FILE
    /\ FreshState(s)
    /\ CanWrLock(obj_lock[x])
    /\ budget' = budget - 1
    /\ LET status == check_share_conflict(obj[x].share, openflags, FALSE)
       IN  IF status # ERR_FSAL_NO_ERROR
           THEN /\ th' = [th EXCEPT ![t] = Return("open2", status, x)]
                /\ UNCHANGED obj_lock
           ELSE /\ obj_lock' = [obj_lock EXCEPT ![x] = wrlock(@, t)]
                /\ th' = [th EXCEPT ![t] =
                            share_read([IdleTh EXCEPT !.pc = "oh_share", !.op = "open2",
                                           !.x = x, !.state = s, !.openflags = openflags,
                                           !.createmode = createmode,
                                           !.verifier = verifier],
                                       x, FSAL_O_CLOSED, openflags)]
    /\ UNCHANGED <<obj, handles, mem_inode_number, root_handle, state_fd, ghost>>

\* The counters take the share; the unlock.
mem_open2_handle_share(t) ==
    /\ At(t, "oh_share")
    /\ obj' = share_store(obj, t)
    /\ obj_lock' = [obj_lock EXCEPT ![th[t].x] = unlock(@, t)]
    /\ th' = [th EXCEPT ![t].pc = "oh_fd"]
    /\ UNCHANGED <<handles, mem_inode_number, root_handle, state_fd, budget, ghost>>

\* my_fd->openflags, the truncation and the verifier check, with no lock
\* held; on a mismatch my_fd is closed again.
mem_open2_handle_fd(t) ==
    /\ At(t, "oh_fd")
    /\ LET x == th[t].x
           s == th[t].state
           verf_ok == \/ ~AtLeastExclusive(th[t].createmode)
                      \/ th[t].createmode = FSAL_EXCLUSIVE_9P
                      \/ check_verifier_attrlist(obj[x], th[t].verifier)
       IN  /\ obj' = truncate_attrs(obj, x, th[t].openflags)
           /\ IF verf_ok
              THEN /\ state_fd' = [state_fd EXCEPT ![s] = fd_openflags(th[t].openflags)]
                   /\ ghost' = LogOpen(ghost, s, x)
                   /\ th' = [th EXCEPT ![t] =
                               [Return("open2", ERR_FSAL_NO_ERROR, x)
                                   EXCEPT !.openflags = th[t].openflags]]
              ELSE /\ state_fd' = [state_fd EXCEPT ![s] = FSAL_O_CLOSED]
                   /\ th' = [th EXCEPT ![t].pc = "oh_undo"]
                   /\ UNCHANGED ghost
    /\ UNCHANGED <<handles, mem_inode_number, root_handle, obj_lock, budget>>

\* The undo after the failed open: the write lock again.
mem_open2_handle_undo_lock(t) ==
    /\ At(t, "oh_undo")
    /\ CanWrLock(obj_lock[th[t].x])
    /\ obj_lock' = [obj_lock EXCEPT ![th[t].x] = wrlock(@, t)]
    /\ th' = [th EXCEPT ![t] =
                share_read([th[t] EXCEPT !.pc = "oh_undo_share"],
                           th[t].x, th[t].openflags, FSAL_O_CLOSED)]
    /\ UNCHANGED <<obj, handles, mem_inode_number, root_handle, state_fd, budget, ghost>>

\* The counters give the share back; the unlock; EEXIST is returned.
mem_open2_handle_undo(t) ==
    /\ At(t, "oh_undo_share")
    /\ obj' = share_store(obj, t)
    /\ obj_lock' = [obj_lock EXCEPT ![th[t].x] = unlock(@, t)]
    /\ th' = [th EXCEPT ![t] = Return("open2", ERR_FSAL_EXIST, th[t].x)]
    /\ UNCHANGED <<handles, mem_inode_number, root_handle, state_fd, budget, ghost>>

\* The open by name once the file is found or created: my_fd->openflags and
\* the attributes, with no lock held; with no state that is all.
mem_open2_name_fd(t) ==
    /\ At(t, "op_fd")
    /\ LET hdl == th[t].x
           s == th[t].state
           o1 == IF ~th[t].created /\ th[t].setattrs
                 THEN mem_copy_attrs_mask(obj, hdl, th[t]) ELSE obj
       IN  IF s = NULL
           THEN /\ obj' = [o1 EXCEPT ![hdl].fd = fd_openflags(th[t].openflags)]
                /\ th' = [th EXCEPT ![t] = Return("open2", ERR_FSAL_NO_ERROR, hdl)]
                /\ UNCHANGED state_fd
           ELSE /\ obj' = o1
                /\ state_fd' = [state_fd EXCEPT ![s] = fd_openflags(th[t].openflags)]
                /\ th' = [th EXCEPT ![t].pc = "on_lock"]
    /\ UNCHANGED <<handles, mem_inode_number, root_handle, obj_lock, budget, ghost>>

\* The open by name with a state: the write lock of the file.
mem_open2_name_lock(t) ==
    /\ At(t, "on_lock")
    /\ CanWrLock(obj_lock[th[t].x])
    /\ obj_lock' = [obj_lock EXCEPT ![th[t].x] = wrlock(@, t)]
    /\ th' = [th EXCEPT ![t] =
                share_read([th[t] EXCEPT !.pc = "on_share"],
                           th[t].x, FSAL_O_CLOSED, th[t].openflags)]
    /\ UNCHANGED <<obj, handles, mem_inode_number, root_handle, state_fd, budget, ghost>>

\* The counters take the share; the unlock; the return.
mem_open2_name_share(t) ==
    /\ At(t, "on_share")
    /\ obj' = share_store(obj, t)
    /\ obj_lock' = [obj_lock EXCEPT ![th[t].x] = unlock(@, t)]
    /\ ghost' = LogOpen(ghost, th[t].state, th[t].x)
    /\ th' = [th EXCEPT ![t] = Return("open2", ERR_FSAL_NO_ERROR, th[t].x)]
    /\ UNCHANGED <<handles, mem_inode_number, root_handle, state_fd, budget>>

\* mem_reopen2: old_openflags is read, the write lock taken and the conflict
\* checked; on a conflict the unlock and the return.
mem_reopen2_lock(t, x, s, openflags) ==
    /\ CanCall(t)
    /\ Resident(x) /\ ghost.sobj[s] = x /\ StateUnused(s)
    /\ CanWrLock(obj_lock[x])
    /\ budget' = budget - 1
    /\ LET status == check_share_conflict(obj[x].share, openflags, FALSE)
       IN  IF status # ERR_FSAL_NO_ERROR
           THEN /\ th' = [th EXCEPT ![t] =
                            [Return("reopen2", status, x) EXCEPT !.openflags = openflags]]
                /\ UNCHANGED obj_lock
           ELSE /\ obj_lock' = [obj_lock EXCEPT ![x] = wrlock(@, t)]
                /\ th' = [th EXCEPT ![t] =
                            share_read([IdleTh EXCEPT !.pc = "ro_share", !.op = "reopen2",
                                           !.x = x, !.state = s, !.openflags = openflags],
                                       x, state_fd[s], openflags)]
    /\ UNCHANGED <<obj, handles, mem_inode_number, root_handle, state_fd, ghost>>

\* The counters move from the old flags to the new; the unlock.
mem_reopen2_share(t) ==
    /\ At(t, "ro_share")
    /\ obj' = share_store(obj, t)
    /\ obj_lock' = [obj_lock EXCEPT ![th[t].x] = unlock(@, t)]
    /\ th' = [th EXCEPT ![t].pc = "ro_fd"]
    /\ UNCHANGED <<handles, mem_inode_number, root_handle, state_fd, budget, ghost>>

\* my_fd->openflags and the truncation, with no lock held; the return.
mem_reopen2_fd(t) ==
    /\ At(t, "ro_fd")
    /\ obj' = truncate_attrs(obj, th[t].x, th[t].openflags)
    /\ state_fd' = [state_fd EXCEPT ![th[t].state] = th[t].openflags]
    /\ th' = [th EXCEPT ![t] =
                [Return("reopen2", ERR_FSAL_NO_ERROR, th[t].x)
                    EXCEPT !.openflags = th[t].openflags]]
    /\ UNCHANGED <<handles, mem_inode_number, root_handle, obj_lock, budget, ghost>>

\* mem_close2 of a share state: the write lock.
mem_close2_lock(t, x, s) ==
    /\ CanCall(t)
    /\ Resident(x) /\ ghost.sobj[s] = x /\ StateUnused(s)
    /\ CanWrLock(obj_lock[x])
    /\ budget' = budget - 1
    /\ obj_lock' = [obj_lock EXCEPT ![x] = wrlock(@, t)]
    /\ th' = [th EXCEPT ![t] =
                share_read([IdleTh EXCEPT !.pc = "cl_share", !.op = "close2",
                               !.x = x, !.state = s],
                           x, state_fd[s], FSAL_O_CLOSED)]
    /\ UNCHANGED <<obj, handles, mem_inode_number, root_handle, state_fd, ghost>>

\* The counters give back my_fd->openflags; the unlock.
mem_close2_share(t) ==
    /\ At(t, "cl_share")
    /\ obj' = share_store(obj, t)
    /\ obj_lock' = [obj_lock EXCEPT ![th[t].x] = unlock(@, t)]
    /\ th' = [th EXCEPT ![t].pc = "cl_fd"]
    /\ UNCHANGED <<handles, mem_inode_number, root_handle, state_fd, budget, ghost>>

\* mem_close_my_fd on the file's global descriptor, with no lock held; the
\* return.
mem_close2_fd(t) ==
    /\ At(t, "cl_fd")
    /\ obj' = [obj EXCEPT ![th[t].x].fd = FSAL_O_CLOSED]
    /\ ghost' = LogClose(ghost, th[t].state)
    /\ th' = [th EXCEPT ![t] = Return("close2", ERR_FSAL_NO_ERROR, th[t].x)]
    /\ UNCHANGED <<handles, mem_inode_number, root_handle, obj_lock, state_fd, budget>>

\* The create modes and the verifier the opens by handle are given: the
\* verifier differs from the one the file "a" holds.
LockCreateModes == {FSAL_NO_CREATE, FSAL_EXCLUSIVE}
LockVerifier == 1

InitLock ==
    /\ obj = ShareStore.obj
    /\ handles = ShareStore.handles
    /\ mem_inode_number = ShareStore.ino
    /\ root_handle = RootObj
    /\ ghost = ShareStore.ghost
    /\ obj_lock = [o \in Obj |-> {}]
    /\ th = [t \in Threads |-> IdleTh]
    /\ state_fd = [s \in States |-> FSAL_O_CLOSED]
    /\ budget = MaxLockOps

\* Both threads open by handle and by name, reopen and close.
NextLock ==
    \E t \in Threads :
        \/ \E x \in Obj, s \in States, f \in OpenFlagSets, m \in LockCreateModes :
              mem_open2_handle_lock(t, x, s, f, m, LockVerifier)
        \/ mem_open2_handle_share(t)
        \/ mem_open2_handle_fd(t)
        \/ mem_open2_handle_undo_lock(t)
        \/ mem_open2_handle_undo(t)
        \/ \E s \in States \cup {NULL}, f \in OpenFlagSets, n \in Names :
              mem_open2_name_call(t, RootObj, s, f, n)
        \/ mem_open2_create(t)
        \/ mem_create_alloc(t)
        \/ mem_create_insert(t)
        \/ mem_open2_name_fd(t)
        \/ mem_open2_name_lock(t)
        \/ mem_open2_name_share(t)
        \/ \E x \in Obj, s \in States, f \in OpenFlagSets : mem_reopen2_lock(t, x, s, f)
        \/ mem_reopen2_share(t)
        \/ mem_reopen2_fd(t)
        \/ \E x \in Obj, s \in States : mem_close2_lock(t, x, s)
        \/ mem_close2_share(t)
        \/ mem_close2_fd(t)

SpecLock == InitLock /\ [][NextLock]_vars

\* The pcs at which a thread is inside update_share_counters.
SharePcs == {"oh_share", "oh_undo_share", "on_share", "ro_share", "cl_share"}

\* C29: a step that changes a file's share counters is taken by a thread that
\* holds the file's lock in write mode, alone; the counters it stores are the
\* counters of that moment moved by its own flags, so no other update is
\* overwritten; and no two threads are inside an update of the same file.
C29_ShareUnderLock ==
    [][/\ \A x \in Obj :
            obj'[x].share # obj[x].share =>
                \E t \in Threads :
                    /\ obj_lock[x] = {0 - t}
                    /\ th[t].pc \in SharePcs /\ th[t].x = x
                    /\ \A u \in Threads \ {t} : th'[u] = th[u]
                    /\ obj'[x].share =
                         update_share_counters(obj[x].share, th[t].from, th[t].to)
       /\ \A t \in Threads : \A u \in Threads \ {t} :
            (th'[t].pc \in SharePcs /\ th'[u].pc \in SharePcs) => th'[t].x # th'[u].x]_vars

\* C29 witness: thread 1 holds the write lock of a file for the undo of its
\* failed open, the counters still holding its share, while thread 2, whose
\* open by name found the same file, waits for that lock.
C29_Witness ==
    \E x \in Obj :
        /\ th[1].pc = "oh_undo_share" /\ th[1].x = x
        /\ obj_lock[x] = {0 - 1}
        /\ obj[x].share # NoShare
        /\ th[2].pc = "on_lock" /\ th[2].x = x

\* ------------------------------------------------------------ waiting for locks
\* mem_release step by step, so that a thread inside mem_clean_dir_tree holds
\* the directory's write lock while it waits for the lock of a child.

Last(q) == q[Len(q)]
Front(q) == SubSeq(q, 1, Len(q) - 1)

\* mem_release past the liveness test: fsal_obj_handle_fini; a directory goes
\* on to mem_clean_dir_tree, anything else is freed.
mem_release_fini(t) ==
    /\ At(t, "rel_free")
    /\ LET x == th[t].x
       IN  /\ handles' = fsal_obj_handle_fini(handles, x)
           /\ IF obj[x].type = DIRECTORY
              THEN /\ th' = [th EXCEPT ![t].pc = "rl_lock", ![t].stack = <<x>>]
                   /\ UNCHANGED <<obj, ghost>>
              ELSE LET S == mem_free_handle([obj |-> obj, nfree |-> ghost.nfree], x)
                   IN  /\ obj' = S.obj
                       /\ ghost' = [ghost EXCEPT !.nfree = S.nfree]
                       /\ th' = [th EXCEPT ![t] = Return("release", "freed", x)]
    /\ UNCHANGED <<state_fd, mem_inode_number, root_handle, obj_lock, budget>>

\* mem_clean_dir_tree: the write lock of the directory.
mem_clean_dir_tree_lock(t) ==
    /\ At(t, "rl_lock")
    /\ CanWrLock(obj_lock[Last(th[t].stack)])
    /\ obj_lock' = [obj_lock EXCEPT ![Last(th[t].stack)] = wrlock(@, t)]
    /\ th' = [th EXCEPT ![t].pc = "rl_loop"]
    /\ UNCHANGED <<obj, handles, mem_inode_number, root_handle, state_fd, budget, ghost>>

\* One turn of the loop of mem_clean_dir_tree.  With a first node in the name
\* tree: mem_remove_obj_locked, which returns at once for a child that is not
\* inavl and otherwise removes and releases it; a child directory is cleaned
\* in turn, with this directory's lock still held.  With the tree empty: the
\* unlock, and mem_release frees the directory.
mem_clean_dir_tree_loop(t) ==
    /\ At(t, "rl_loop")
    /\ LET d == Last(th[t].stack)
           child == avltree_first_name(obj, d)
           o1 == mem_remove_obj_locked(obj, d, child)
           S == mem_free_handle([obj |-> obj, nfree |-> ghost.nfree], d)
           S1 == mem_free_handle([obj |-> o1, nfree |-> ghost.nfree], child)
       IN  IF obj[d].avl_name = {}
           THEN /\ obj_lock' = [obj_lock EXCEPT ![d] = unlock(@, t)]
                /\ obj' = S.obj
                /\ ghost' = [ghost EXCEPT !.nfree = S.nfree]
                /\ th' = [th EXCEPT ![t] =
                            IF Len(th[t].stack) = 1
                            THEN Return("release", "freed", th[t].x)
                            ELSE [th[t] EXCEPT !.stack = Front(@)]]
                /\ UNCHANGED handles
           ELSE IF ~obj[child].inavl
           THEN \* nothing is removed: the loop finds the same node again
                UNCHANGED <<obj, obj_lock, ghost, th, handles>>
           ELSE IF mem_release_live(o1, child)
           THEN /\ obj' = o1
                /\ UNCHANGED <<obj_lock, ghost, th, handles>>
           ELSE /\ handles' = fsal_obj_handle_fini(handles, child)
                /\ UNCHANGED obj_lock
                /\ IF o1[child].type = DIRECTORY
                   THEN /\ obj' = o1
                        /\ th' = [th EXCEPT ![t].pc = "rl_lock",
                                            ![t].stack = Append(@, child)]
                        /\ UNCHANGED ghost
                   ELSE /\ obj' = S1.obj
                        /\ ghost' = [ghost EXCEPT !.nfree = S1.nfree]
                        /\ UNCHANGED th
    /\ UNCHANGED <<state_fd, mem_inode_number, root_handle, budget>>

\* The stores the behaviours start from: a regular file "a" in the export
\* root; or a directory "b" that was unlinked while empty and has had a
\* directory "a" created in it since.
LiveStores ==
    {ShareStore,
     LET S1 == AddChild(RootStore, RootObj, <<"b">>, DIRECTORY)
         D == S1.last
     IN  AddChild(RemoveChild(S1, RootObj, D), D, <<"a">>, DIRECTORY)}

InitLive ==
    \E LiveStore \in LiveStores :
    /\ obj = LiveStore.obj
    /\ handles = LiveStore.handles
    /\ mem_inode_number = LiveStore.ino
    /\ root_handle = RootObj
    /\ ghost = LiveStore.ghost
    /\ obj_lock = [o \in Obj |-> {}]
    /\ th = [t \in Threads |-> IdleTh]
    /\ state_fd = [s \in States |-> FSAL_O_CLOSED]
    /\ budget = MaxLiveOps

\* What one thread can do next: every method of the claim, the sections that
\* hold one lock and wait for no other as one step each.
StepLive(t) ==
    \/ \E p \in Obj, ty \in Types, n \in Names : mem_create_call(t, p, ty, n)
    \/ mem_create_alloc(t)
    \/ mem_create_insert(t)
    \/ \E d \in Obj, n \in Names : mem_lookup_call(t, d, n)
    \/ mem_lookup_unlock(t)
    \/ \E d \in Obj : mem_readdir_call(t, d, NULL)
    \/ mem_readdir_entry(t)
    \/ mem_readdir_terminate(t)
    \/ mem_readdir_end(t)
    \/ \E n \in Names : mem_readdir_cb_lookup(t, th[t].dir, n)
    \/ \E d \in Obj, x \in Obj : mem_unlink(t, d, x)
    \/ \E x \in Obj, od \in Obj, nd \in Obj, nn \in Names : mem_rename_call(t, x, od, nd, nn)
    \/ mem_rename_unlink(t)
    \/ mem_rename_remove(t)
    \/ mem_rename_insert(t)
    \/ \E x \in Obj, s \in States, f \in OpenFlagSets : mem_open2_handle(t, x, s, f)
    \/ \E x \in Obj, s \in States, f \in OpenFlagSets : mem_reopen2(t, x, s, f)
    \/ \E x \in Obj, s \in States : mem_close2(t, x, s)
    \/ \E x \in Obj : Resident(x) /\ Published(x) /\ mem_release_call(t, x)
    \/ mem_release_fini(t)
    \/ mem_clean_dir_tree_lock(t)
    \/ mem_clean_dir_tree_loop(t)

NextLive == \E t \in Threads : StepLive(t)

\* Fair scheduling: a thread that can take a step is not left waiting for ever.
SpecLive ==
    InitLive /\ [][NextLive]_vars /\ \A t \in Threads : WF_vars(StepLive(t))

\* C26: with fair scheduling every operation that has started returns.
C26_EveryOperationReturns ==
    \A t \in Threads : (th[t].pc # "idle") ~> (th[t].pc = "idle")

\* ------------------------------------------------------------ open with no state
\* C31: an open by handle with no state returns success with the requested
\* flags (write implying read) in the file's own descriptor.
C31_StatelessOpen ==
    [][\A x \in Obj : \A f \in OpenFlagSets :
          mem_open2_handle_nostate(1, x, f) =>
              /\ th'[1].pc = "idle" /\ th'[1].ret = ERR_FSAL_NO_ERROR
              /\ obj'[x].fd = fd_openflags(f)]_vars

\* ------------------------------------------------------------ failed rename
InitRename == InitStore /\ budget = MaxRenOps

\* One thread creates, unlinks, releases and renames, and opens files by name
\* with no state, which leaves their own descriptor open.
NextRename ==
    \/ Step(1)
    \/ \E d \in Obj, n \in Names : mem_open2_name_call(1, d, NULL, {FSAL_O_READ}, n)
    \/ mem_open2_create(1)
    \/ mem_open2_fd(1)

SpecRename == InitRename /\ [][NextRename]_vars

\* C32: the step on which a rename returns an error changes no object: both
\* directories' trees and link counts, the source's name and index and the
\* destination are what they were when the rename was called.
C32_FailedRename ==
    [][(/\ th[1].pc \in {"idle", "rn_unlink"}
        /\ th'[1].pc = "idle" /\ th'[1].op = "rename"
        /\ th'[1].ret # ERR_FSAL_NO_ERROR)
          => /\ obj' = obj
             /\ handles' = handles]_vars

\* C32 witness: a rename onto the name of a regular file whose descriptor is
\* open has returned ERR_FSAL_FILE_OPEN; source and destination are both
\* still indexed.
C32_Witness ==
    /\ th[1].pc = "idle" /\ th[1].op = "rename" /\ th[1].ret = ERR_FSAL_FILE_OPEN
    /\ obj[th[1].x].inavl
    /\ \E dst \in Obj \ {th[1].x} :
          /\ Resident(dst) /\ obj[dst].inavl /\ obj[dst].fd # FSAL_O_CLOSED

\* ------------------------------------------------------------ rename seen by others
\* C33: in every state a rename in flight leaves for the other threads, the
\* object is indexed in the old directory or in the new one.
C33_RenameAtomic ==
    \A t \in Threads :
        th[t].pc \in {"rn_unlink", "rn_remove", "rn_insert"} =>
            LET x == th[t].x
            IN  /\ obj[x].inavl
                /\ x \in obj[th[t].dir].avl_name \cup obj[th[t].ndir].avl_name

\* ------------------------------------------------------------ the parent pointer
\* mem_int_lookup of "..": the directory's parent pointer (NULL is
\* ERR_FSAL_NOENT).
mem_int_lookupp(o, dir) == o[dir].parent

\* C34: the parent pointer of every indexed object other than the root is the
\* directory whose index holds it, and the lookup of ".." in an indexed
\* directory answers that directory.
C34_ParentBackRef ==
    \A x \in Obj \ {RootObj} :
        (Resident(x) /\ obj[x].inavl) =>
            /\ obj[x].parent = DirOf(obj, x)
            /\ obj[x].type = DIRECTORY => mem_int_lookupp(obj, x) = DirOf(obj, x)

\* ------------------------------------------------------------ one handle, one object
\* C35: no two objects on fsal->handles carry the same handle bytes, so the
\* resolve of an object's handle answers that object.
C35_HandleUnique ==
    \A i \in 1 .. Len(handles) :
        /\ \A j \in 1 .. Len(handles) :
              i # j => obj[handles[i]].handle # obj[handles[j]].handle
        /\ mem_create_handle(obj, handles, obj[handles[i]].handle) = handles[i]

\* ------------------------------------------------------------ the export root
\* mem_lookup_path, its read of mfe->root_handle for the test against NULL.
mem_lookup_path_root(rh) == rh

\* mem_lookup_path up to the test of mfe->root_handle: a path other than the
\* export's is ERR_FSAL_NOENT; a root that is there is returned.
mem_lookup_path_call(t, path) ==
    /\ CanCall(t)
    /\ budget' = budget - 1
    /\ th' = [th EXCEPT ![t] =
                IF path # ExportPath THEN Return("lookup_path", ERR_FSAL_NOENT, NULL)
                ELSE IF mem_lookup_path_root(root_handle) # NULL
                THEN Return("lookup_path", ERR_FSAL_NO_ERROR,
                            mem_lookup_path_root(root_handle))
                ELSE [IdleTh EXCEPT !.pc = "lp_alloc", !.op = "lookup_path"]]
    /\ UNCHANGED <<obj, handles, mem_inode_number, root_handle, obj_lock, state_fd, ghost>>

\* mfe->root_handle was NULL: mem_alloc_handle with no parent, and the store
\* into mfe->root_handle.
mem_lookup_path_alloc(t) ==
    /\ At(t, "lp_alloc")
    /\ Unalloc # {}
    /\ LET new == CHOOSE o \in Unalloc : \A u \in Unalloc : o <= u
       IN  /\ obj' = [mem_alloc_handle(obj, new, NULL, ExportPath, DIRECTORY,
                                       mem_inode_number)
                         EXCEPT ![new].attrs_numlinks = 2]
           /\ handles' = fsal_obj_handle_init(handles, new)
           /\ mem_inode_number' = atomic_postinc_uint64_t(mem_inode_number)
           /\ root_handle' = new
           /\ th' = [th EXCEPT ![t].pc = "lp_ret", ![t].x = new]
    /\ UNCHANGED <<obj_lock, state_fd, budget, ghost>>

\* *obj_hdl = &mfe->root_handle->obj_handle, read with no lock while another
\* thread may be storing: the value this thread stored or the one there now.
mem_lookup_path_ret(t) ==
    /\ At(t, "lp_ret")
    /\ \E r \in {th[t].x, root_handle} :
          th' = [th EXCEPT ![t] = Return("lookup_path", ERR_FSAL_NO_ERROR, r)]
    /\ UNCHANGED <<obj, handles, mem_inode_number, root_handle, obj_lock, state_fd, budget,
                   ghost>>

\* The paths lookup_path is called with: the export's and another.
LookupPaths == {ExportPath, <<"/", "x">>}

\* The export has just been created: no object, mfe->root_handle is NULL.
InitRoot ==
    /\ obj = [o \in Obj |-> NoObj]
    /\ handles = <<>>
    /\ mem_inode_number = 1
    /\ root_handle = NULL
    /\ obj_lock = [o \in Obj |-> {}]
    /\ th = [t \in Threads |-> IdleTh]
    /\ state_fd = [s \in States |-> FSAL_O_CLOSED]
    /\ ghost = InitGhost
    /\ budget = MaxRootOps

NextRoot ==
    \E t \in Threads :
        \/ \E path \in LookupPaths : mem_lookup_path_call(t, path)
        \/ mem_lookup_path_alloc(t)
        \/ mem_lookup_path_ret(t)

SpecRoot == InitRoot /\ [][NextRoot]_vars

\* C36: at most one root object is ever allocated, every lookup_path of the
\* export's path that has returned answered that object, and a lookup_path
\* that answered ERR_FSAL_NOENT returned no object.
C36_OneRoot ==
    /\ Cardinality({x \in Obj : obj[x].st # "unalloc"}) <= 1
    /\ \A t \in Threads :
          (th[t].pc = "idle" /\ th[t].op = "lookup_path") =>
              IF th[t].ret = ERR_FSAL_NO_ERROR
              THEN th[t].x = root_handle /\ obj[th[t].x].st = "resident"
              ELSE th[t].x = NULL

\* ------------------------------------------------------------ removed directories
\* C37: a directory that was indexed and has been taken out of its parent's
\* index by unlink or by a rename over it (not one a rename is moving right
\* now) has no indexed children.
C37_NoOrphanedSubtree ==
    \A d \in Obj \ {RootObj} :
        (/\ Resident(d) /\ obj[d].type = DIRECTORY /\ ~obj[d].inavl
         /\ \E p \in Obj : \E i \in 1 .. Len(ghost.ilog[p]) : ghost.ilog[p][i][1] = d
         /\ \A t \in Threads :
               ~(th[t].pc \in {"rn_unlink", "rn_remove", "rn_insert"} /\ th[t].x = d))
            => obj[d].avl_index = {}

\* ------------------------------------------------------------ file sizes
\* C38: for every regular file the size getattrs reports (attrs.filesize) is
\* the logical length mem_read2 clamps requests on (mh_file.length).
C38_SizeConsistency ==
    \A x \in Obj :
        (Resident(x) /\ obj[x].type = REGULAR_FILE) => obj[x].filesize = obj[x].length

====
